---- MODULE Spec2Model ----
(***************************************************************************)
(* Streaming response consumer of the question/answer front end.           *)
(*                                                                         *)
(* Text is a sequence of characters, a chunk a sequence of bytes.  An      *)
(* ASCII byte and its character are the same one-character string; the     *)
(* two-byte character U+00E9 is the bytes Lead, Cont and the character     *)
(* EAcute.  A JSON object is written "{" members "}" where one character   *)
(* abbreviates one member ("key": value):                                  *)
(*    M  "type":"metadata"     T  "type":"token"     D  "type":"done"      *)
(*    X  "type":"other"        A, B, EAcute, N  "content": that text       *)
(*    Q  "error":"Q"           7, 8  "chat_id": 7, 8                       *)
(*    p  "progress":50         r  "progress":100 with "result"             *)
(*    e  "elapsed":1.5                                                     *)
(*    bar, line, pie, table, single_value, none  "viz_type": that hint     *)
(*    rows0..rows3  "data": that many rows    cols1..cols3  "columns"      *)
(***************************************************************************)
EXTENDS Integers, Sequences, FiniteSets, TLC

\* ------------------------------------------------------------------ bounds
NumSessions == 2      \* askQuestion calls
MaxEvents == 2        \* events of a generated stream (SpecChunk)
ChunkUnit == 4        \* Spec cuts a response every ChunkUnit bytes
MaxRows == 95         \* rows of a rendered table (SpecPage)
MaxJump == 9          \* largest step of one changePage call (SpecPage)
MaxMessages == 4      \* message elements ever created (SpecChart)
MaxCharts == 3        \* Chart objects ever created (SpecChart)
MaxToasts == 2        \* validation toasts shown at once (SpecAsk)
MaxRefreshes == 3     \* chat-list refreshes a deleteChat may add to (SpecReset)
MaxPlotRows == 52     \* rows of a charted result (SpecPlot, SpecRows)

Sessions == 1..NumSessions

\* ------------------------------------------------------------- characters
NL == "\n"
Lead == "C3"
Cont == "A9"
EAcute == "U+00E9"
Repl == "U+FFFD"
Cursor == "<span class=streaming-cursor>"
Br == "<br>"
Undefined == "undefined"

Prefix == <<"d", "a", "t", "a", ":", " ">>

TypeMembers == {"M", "T", "D", "X"}
ContentMembers == {"A", "B", EAcute, "N"}
ErrorMembers == {"Q"}
ChatIdMembers == {"7", "8"}
ProgressMembers == {"p", "r"}
ElapsedMembers == {"e"}
VizMembers == {"bar", "line", "pie", "table", "single_value", "none"}
RowMembers == {"rows0", "rows1", "rows2", "rows3"}
ColMembers == {"cols1", "cols2", "cols3"}
Members == TypeMembers \cup ContentMembers \cup ErrorMembers
             \cup ChatIdMembers \cup ProgressMembers \cup ElapsedMembers
             \cup VizMembers \cup RowMembers \cup ColMembers

\* ---------------------------------------------------------------- helpers
Drop(s, n) == SubSeq(s, n + 1, Len(s))

StartsWith(s, p) == Len(s) >= Len(p) /\ SubSeq(s, 1, Len(p)) = p

\* The last element of s that lies in S, or "" when there is none.
RECURSIVE LastIn(_, _)
LastIn(s, S) ==
  IF s = <<>> THEN ""
  ELSE IF s[Len(s)] \in S THEN s[Len(s)]
  ELSE LastIn(SubSeq(s, 1, Len(s) - 1), S)

\* ------------------------------------------------- TextDecoder (UTF-8)
\* decoder.decode(value, { stream }) on the pending bytes followed by value:
\* the decoded text and the bytes of an unfinished character kept for the
\* next call.  Lead followed by Cont is one character; a Lead or a Cont
\* elsewhere decodes to U+FFFD, except that with the stream flag a final
\* Lead is kept pending.  "" marks a byte that yields no character.
DecodeByte(bytes, i, streaming) ==
  IF bytes[i] = Lead
  THEN IF i < Len(bytes)
       THEN (IF bytes[i + 1] = Cont THEN EAcute ELSE Repl)
       ELSE (IF streaming THEN "" ELSE Repl)
  ELSE IF bytes[i] = Cont
       THEN (IF i > 1 /\ bytes[i - 1] = Lead THEN "" ELSE Repl)
  ELSE bytes[i]

DecodeWith(bytes, streaming) ==
  [text |-> SelectSeq([i \in 1..Len(bytes) |-> DecodeByte(bytes, i, streaming)],
                      LAMBDA c : c # ""),
   pend |-> IF streaming /\ bytes # <<>> /\ bytes[Len(bytes)] = Lead
            THEN <<Lead>> ELSE <<>>]

DecodeNoStream(bytes) == DecodeWith(bytes, FALSE)

Decode(bytes) == DecodeWith(bytes, TRUE)

\* ------------------------------------------------------ String.split(sep)
\* The leftmost occurrence of sep in text, 0 when there is none.
FirstMatch(text, sep) ==
  LET At(i) == SubSeq(text, i, i + Len(sep) - 1) = sep
      Starts == 1..(Len(text) - Len(sep) + 1)
  IN IF \E i \in Starts : At(i)
     THEN CHOOSE i \in Starts : At(i) /\ \A j \in 1..(i - 1) : ~At(j)
     ELSE 0

RECURSIVE Split(_, _)
Split(text, sep) ==
  LET i == FirstMatch(text, sep)
  IN IF i = 0 THEN <<text>>
     ELSE <<SubSeq(text, 1, i - 1)>> \o Split(Drop(text, i + Len(sep) - 1), sep)

\* lines.pop(): the segments before the last, and the last one.
WithPartial(lines) == lines
Complete(lines) == SubSeq(lines, 1, Len(lines) - 1)
PopNone(lines) == <<>>
Pop(lines) == lines[Len(lines)]

\* ------------------------------------------------------------- JSON.parse
\* Throws (ok = FALSE) unless the text is one complete object.
WellFormed(text) ==
  /\ Len(text) >= 2
  /\ text[1] = "{"
  /\ text[Len(text)] = "}"
  /\ \A i \in 2..(Len(text) - 1) : text[i] \in Members

ParseJSON(text) ==
  IF ~WellFormed(text) THEN [ok |-> FALSE]
  ELSE LET ms == SubSeq(text, 2, Len(text) - 1)
           t == LastIn(ms, TypeMembers)
       IN [ok |-> TRUE,
           members |-> ms,
           type |-> CASE t = "M" -> "metadata" [] t = "T" -> "token"
                      [] t = "D" -> "done" [] t = "X" -> "other"
                      [] OTHER -> Undefined,
           content |-> LET c == LastIn(ms, ContentMembers)
                       IN IF c = "" THEN Undefined ELSE IF c = "N" THEN NL ELSE c,
           error |-> LastIn(ms, ErrorMembers),
           chat_id |-> LET c == LastIn(ms, ChatIdMembers)
                       IN IF c = "7" THEN 7 ELSE IF c = "8" THEN 8 ELSE 0,
           progress |-> LET c == LastIn(ms, ProgressMembers)
                        IN IF c = "p" THEN 50 ELSE IF c = "r" THEN 100 ELSE 0,
           elapsed |-> IF LastIn(ms, ElapsedMembers) = "e" THEN "1.50" ELSE Undefined,
           viz_type |-> LET v == LastIn(ms, VizMembers)
                        IN IF v = "" THEN Undefined ELSE v,
           data |-> LET r == LastIn(ms, RowMembers)
                    IN CASE r = "rows1" -> 1 [] r = "rows2" -> 2
                         [] r = "rows3" -> 3 [] OTHER -> 0,
           columns |-> LET c == LastIn(ms, ColMembers)
                       IN CASE c = "cols1" -> 1 [] c = "cols2" -> 2
                            [] c = "cols3" -> 3 [] OTHER -> 0]

\* ------------------------------------------------------------ formatAnswer
\* The answer alphabet holds no "*" and no digit, so of the four
\* replacements only the line break one applies.
formatAnswer(text) ==
  [i \in 1..Len(text) |-> IF text[i] = NL THEN Br ELSE text[i]]

\* ------------------------------------------------------------------ wire
\* One event of the question stream: the prefix, the payload, a newline.
Frame(payload) == Prefix \o payload \o <<NL>>

RECURSIVE Wire(_)
Wire(payloads) ==
  IF payloads = <<>> THEN <<>> ELSE Frame(Head(payloads)) \o Wire(Tail(payloads))

Meta == <<"{", "M", "}">>
Meta7 == <<"{", "M", "7", "}">>
Meta8 == <<"{", "M", "8", "}">>
TokA == <<"{", "T", "A", "}">>
TokB == <<"{", "T", "B", "}">>
TokE == <<"{", "T", Lead, Cont, "}">>
TokN == <<"{", "T", "N", "}">>
DoneEv == <<"{", "D", "e", "}">>
ErrEv == <<"{", "Q", "}">>

\* The response bodies the answer service sends in Spec.
AnswerStreams ==
  { Wire(<<Meta7, TokA, DoneEv, TokB>>),
    Wire(<<TokA, Meta8, TokN, ErrEv>>),
    Wire(<<ErrEv, TokA>>),
    Wire(<<DoneEv, Meta, TokE, TokN>>),
    Wire(<<Meta, DoneEv, ErrEv>>) }

\* ------------------------------------------------------------------ state
VARIABLES
  pc,                \* per askQuestion call: idle, fetch, read, returned, threw
  stream,            \* the response body of the call, in bytes
  pos,               \* how many of its bytes reader.read() has delivered
  pend,              \* the decoder's bytes of an unfinished character
  buffer,            \* let buffer
  streamedAnswer,    \* let streamedAnswer
  metadataReceived,  \* let metadataReceived
  bubbleP,           \* let bubbleP: index into messages, 0 for null
  state,             \* QuerySession.state, as the call's path through the code
  events,            \* the payloads JSON.parse returned to the call, in order
  trail,             \* the states the call has been in, in order
  parseFailures,     \* the lines whose JSON.parse threw, in order
  currentChatId,     \* let currentChatId, 0 for null
  loadingShown,      \* #loading has class show
  askBtnDisabled,    \* askBtn.disabled
  messages,          \* children of #messagesContainer
  refreshes,         \* loadChatHistory() calls made by askQuestion
  requests,          \* POST /ask-stream requests sent
  responseTime,      \* the response-time display, "" while nothing is shown
  tableData,         \* window._tableData[tableId], stored FALSE when absent
  tableDom,          \* the table's elements: body rows, buttons, page label
  requestedPage,     \* tableData.currentPage after += direction (line 316)
  cellIn,            \* the last table cell built: its value, column and path
  cellOut,           \* the html of that cell
  labelIn,           \* the last value and maxLen given to truncateLabel
  labelOut,          \* the label it returned
  detached,          \* the message elements removed from #messagesContainer
  chartInstances,    \* const chartInstances: pairs <<container id, chart>>
  charts,            \* every Chart object created, with its destroyed flag
  plotIn,            \* the last vizType, columns and data given to a chart
  plotOut,           \* the labels and values handed to new Chart
  switching,         \* the chats whose switchToChat awaits its messages
  datasetSelect,     \* #datasetSelect's value, 0 for none
  currentCustomPrompt, \* let currentCustomPrompt, 0 for null
  toasts,            \* the toasts of askQuestion's validation now shown
  questionInput,     \* #questionInput's value
  upPc,              \* uploadFile call: idle, fetch, read, returned
  upStream,          \* the upload response body, in bytes
  upPos,             \* how many of its bytes reader.read() has delivered
  upPend,            \* the upload decoder's bytes of an unfinished character
  upBuffer,          \* let buffer of uploadFile
  upEvents,          \* the payloads handed to updateProgressUI, in order
  uploadPercent,     \* #uploadPercent, as a number
  uploadStatus       \* #uploadStatus: starting, progress, error, success

vars == <<pc, stream, pos, pend, buffer, streamedAnswer, metadataReceived,
          bubbleP, state, events, trail, parseFailures, currentChatId,
          loadingShown, askBtnDisabled, messages, refreshes, requests,
          responseTime, tableData, tableDom, requestedPage, cellIn, cellOut,
          labelIn, labelOut, detached, chartInstances, charts, plotIn, plotOut,
          switching, datasetSelect, currentCustomPrompt, toasts,
          questionInput, upPc, upStream, upPos, upPend,
          upBuffer, upEvents, uploadPercent, uploadStatus>>

uploadVars == <<upPc, upStream, upPos, upPend, upBuffer, upEvents,
                uploadPercent, uploadStatus>>

sessionVars == <<pc, stream, pos, pend, buffer, streamedAnswer, metadataReceived,
                 bubbleP, state, events, trail, parseFailures>>

chartVars == <<detached, chartInstances, charts>>

plotVars == <<plotIn, plotOut>>

chatVars == <<switching, datasetSelect, currentCustomPrompt, toasts>>

\* What no step of askQuestion or uploadFile writes.
viewVars == <<responseTime, tableData, tableDom, requestedPage, cellIn, cellOut,
              labelIn, labelOut, chartVars, plotVars, chatVars>>

tableVars == <<tableData, tableDom, requestedPage>>

\* What the table handlers leave alone.
callVars == <<sessionVars, currentChatId, loadingShown, askBtnDisabled, messages,
              refreshes, requests, uploadVars, chartVars, chatVars, questionInput>>

GenericFailure == "Something went wrong. Please try again."

ErrorSpan(msg) == <<"<span class=error-text>", msg>>

\* createMessageElement(role, content) without metadata: a standard message.
createMessageElement(role, owner, html) ==
  [role |-> role, bubble |-> "plain", owner |-> owner, html |-> html]

\* The assistant message askQuestion builds on metadata: a visualization
\* placeholder and the answer-text paragraph (html is the paragraph's).
AnswerBubble(owner, viz) ==
  [role |-> "assistant", bubble |-> "answer", owner |-> owner, html |-> <<>>,
   viz |-> viz]

\* --------------------------------------------------------- visualization
\* A result set is its number of rows and of columns.  What a
\* viz-placeholder holds: nothing ("empty"), a table, an empty chart
\* container whose chart a timer will draw ("container"), a chart, or a
\* single-value display of the first row's valueColumn-th column.
Placeholder(shown, vizType, columns, data, valueColumn) ==
  [shown |-> shown, vizType |-> vizType, columns |-> columns, data |-> data,
   valueColumn |-> valueColumn]

EmptyPlaceholder == Placeholder("empty", Undefined, 0, 0, 0)

shouldRenderChart(vizType, data) ==
  IF vizType = Undefined \/ vizType = "table" \/ vizType = "single_value"
  THEN FALSE
  ELSE IF data < 2 THEN FALSE
  ELSE vizType \in {"bar", "line", "pie"}

renderSingleValue(container, columns, data) ==
  IF data = 0 THEN container
  ELSE Placeholder("single", "single_value", columns, data,
                   IF columns > 1 THEN 2 ELSE 1)

\* renderVisualization(containerId, ...) on the container's content.
renderVisualization(container, vizType, columns, data) ==
  IF vizType = "single_value" THEN renderSingleValue(container, columns, data)
  ELSE IF ~shouldRenderChart(vizType, data) THEN container
  ELSE Placeholder("chart", vizType, columns, data, 0)

\* if (resultData.data && resultData.data.length > 0) { ... } of the
\* metadata branch: the placeholder's content when the branch is left.
ImmediateViz(data) ==
  IF data.data > 0
  THEN LET vizType == IF data.viz_type = Undefined THEN "table" ELSE data.viz_type
       IN IF shouldRenderChart(vizType, data.data)
          THEN Placeholder("container", vizType, data.columns, data.data, 0)
          ELSE IF vizType = "table"
          THEN Placeholder("table", vizType, data.columns, data.data, 0)
          ELSE EmptyPlaceholder
  ELSE EmptyPlaceholder

\* ------------------------------------------- the body of the line loop
\* The state one pass of the loop reads and writes, as a record.
Locals(s) ==
  [streamedAnswer |-> streamedAnswer[s],
   metadataReceived |-> metadataReceived[s],
   bubbleP |-> bubbleP[s],
   state |-> state[s],
   events |-> events[s],
   trail |-> trail[s],
   parseFailures |-> parseFailures[s],
   currentChatId |-> currentChatId,
   loadingShown |-> loadingShown,
   askBtnDisabled |-> askBtnDisabled,
   messages |-> messages,
   refreshes |-> refreshes,
   returned |-> FALSE]

\* The call moves to state q.
Enter(st, q) ==
  [st EXCEPT !.state = q, !.trail = IF st.state = q THEN @ ELSE Append(@, q)]

\* if (data.error): an assistant message whose paragraph is the error span.
ErrorWithEmptyMessage(s, msg) ==
  <<createMessageElement("assistant", s, <<>>),
    createMessageElement("assistant", s, ErrorSpan(msg))>>

ErrorElements(s, msg) == <<createMessageElement("assistant", s, ErrorSpan(msg))>>

ErrorBranch(st, data, s) ==
  [Enter(st, "Failed") EXCEPT !.loadingShown = FALSE,
                              !.messages = @ \o ErrorElements(s, data.error),
                              !.askBtnDisabled = FALSE,
                              !.returned = TRUE]

\* if (data.type === 'metadata')
MetadataBranch(st, data, s) ==
  [Enter(st, "Streaming") EXCEPT
             !.metadataReceived = TRUE,
             !.currentChatId = IF data.chat_id # 0 /\ @ = 0 THEN data.chat_id ELSE @,
             !.loadingShown = FALSE,
             !.messages = Append(@, AnswerBubble(s, ImmediateViz(data))),
             !.bubbleP = Len(st.messages) + 1]

\* The paragraph a token or done event of the call renders into.
LastAssistantMessage(st) ==
  IF \E i \in 1..Len(st.messages) : st.messages[i].role = "assistant"
  THEN CHOOSE i \in 1..Len(st.messages) :
         /\ st.messages[i].role = "assistant"
         /\ \A j \in (i + 1)..Len(st.messages) : st.messages[j].role # "assistant"
  ELSE 0

AnswerSink(st) == st.bubbleP

ReplaceAnswer(answer, content) == <<content>>

Accumulate(answer, content) == answer \o <<content>>

TokenWithoutMetadata(st, data) == data.type = "token"

TokenAccepted(st, data) == data.type = "token" /\ st.metadataReceived

\* streamedAnswer += data.content; bubbleP.innerHTML = ... + cursor.  With
\* bubbleP null the assignment throws after the append and the loop's catch
\* swallows it.
TokenBranch(st, data) ==
  LET answer == Accumulate(st.streamedAnswer, data.content)
      sink == AnswerSink(st)
  IN IF sink = 0
     THEN [st EXCEPT !.streamedAnswer = answer]
     ELSE [st EXCEPT !.streamedAnswer = answer,
                     !.messages[sink].html = formatAnswer(answer) \o <<Cursor>>]

\* if (data.type === 'done'): with bubbleP null the first statement throws
\* and the loop's catch swallows it, before loadChatHistory() is reached.
DoneBranch(st) ==
  LET sink == AnswerSink(st)
  IN IF sink = 0
     THEN st
     ELSE [Enter(st, "Done") EXCEPT
                     !.messages[sink].html = formatAnswer(st.streamedAnswer),
                     !.refreshes = @ + 1]

FailureWithoutType(data) == data.error # "" /\ data.type = Undefined

\* if (data.error), tested before any data.type
IsFailure(data) == data.error # ""

HandleData(st, data, s) ==
  IF IsFailure(data)
  THEN ErrorBranch(st, data, s)
  ELSE LET a == IF data.type = "metadata" THEN MetadataBranch(st, data, s) ELSE st
           b == IF TokenAccepted(a, data) THEN TokenBranch(a, data) ELSE a
       IN IF data.type = "done" THEN DoneBranch(b) ELSE b

\* catch (e) of the loop body on a JSON.parse that threw: a debug line.
ParseErrorIsTerminal(st, line) ==
  [Enter(st, "Failed") EXCEPT !.parseFailures = Append(@, line),
                              !.askBtnDisabled = FALSE,
                              !.returned = TRUE]

ParseError(st, line) == [st EXCEPT !.parseFailures = Append(@, line)]

\* for (const line of lines) { ... }, left by the return of the error branch.
HandleLine(st, line, s) ==
  IF ~StartsWith(line, Prefix) THEN st
  ELSE LET data == ParseJSON(Drop(line, Len(Prefix)))
       IN IF ~data.ok THEN ParseError(st, line)
          ELSE HandleData([st EXCEPT !.events = Append(@, data.members)], data, s)

RECURSIVE ProcessLines(_, _, _)
ProcessLines(st, lines, s) ==
  IF lines = <<>> \/ st.returned THEN st
  ELSE ProcessLines(HandleLine(st, Head(lines), s), Tail(lines), s)

\* catch (error) of askQuestion, then the statement after the try: with
\* bubbleP null the handler itself throws and the call rejects.
CatchBlock(st) ==
  IF st.bubbleP = 0
  THEN [Enter(st, "Failed") EXCEPT !.loadingShown = FALSE, !.returned = FALSE]
  ELSE [Enter(st, "Failed") EXCEPT
                  !.loadingShown = FALSE,
                  !.messages[st.bubbleP].html = ErrorSpan(GenericFailure),
                  !.askBtnDisabled = FALSE,
                  !.returned = TRUE]

\* ------------------------------------------------------- paginated table
previewSize == 10
pageSize == 20

Min(a, b) == IF a < b THEN a ELSE b
Max(a, b) == IF a > b THEN a ELSE b

\* Math.floor in place of Math.ceil
FloorPages(n) == n \div pageSize

\* Math.ceil(data.length / pageSize)
TotalPages(n) == (n + pageSize - 1) \div pageSize

\* A slice that runs to the last row whatever its end.
SliceToEnd(n, start, end) == <<start + 1, n>>

\* data.slice(start, end) of n rows, as the numbers of its first and last
\* row (first > last when the slice is empty).
Slice(n, start, end) == <<start + 1, Min(end, n)>>

NoClamp(page, totalPages) == page

\* Math.max(1, Math.min(page, totalPages))
Clamp(page, totalPages) == Max(1, Min(page, totalPages))

NoTableData == [stored |-> FALSE, data |-> 0, currentPage |-> 0, expanded |-> FALSE]

\* body: the rows in the table body; viewMore: the View All button;
\* pagination: the Prev/Next controls, with the page label and the buttons'
\* disabled flags.
TableDom(body, viewMore, pagination, page, prevDisabled, nextDisabled) ==
  [body |-> body, viewMore |-> viewMore, pagination |-> pagination,
   page |-> page, prevDisabled |-> prevDisabled, nextDisabled |-> nextDisabled]

NoTable == TableDom(<<0, 0>>, FALSE, FALSE, 0, FALSE, FALSE)

\* renderDataTable(columns, data, autoExpand) with n rows, inserted into the
\* document.
renderDataTable(n) ==
  /\ tableDom = NoTable
  /\ n > 0
  /\ tableData' = IF n > previewSize
                  THEN [stored |-> TRUE, data |-> n, currentPage |-> 1,
                        expanded |-> FALSE]
                  ELSE NoTableData
  /\ tableDom' = TableDom(Slice(n, 0, previewSize), n > previewSize, FALSE, 0,
                          FALSE, FALSE)
  /\ UNCHANGED <<callVars, plotVars, responseTime, requestedPage, cellIn, cellOut,
                 labelIn, labelOut>>

\* expandTable(tableId), the onclick of the View All button.
expandTable ==
  /\ tableDom.viewMore
  /\ tableData.stored
  /\ tableData' = [tableData EXCEPT !.expanded = TRUE, !.currentPage = 1]
  /\ tableDom' = IF TotalPages(tableData.data) > 1
                 THEN TableDom(Slice(tableData.data, 0, pageSize), FALSE, TRUE, 1,
                               TRUE, FALSE)
                 ELSE TableDom(Slice(tableData.data, 0, pageSize), FALSE, FALSE, 0,
                               FALSE, FALSE)
  /\ UNCHANGED <<callVars, plotVars, responseTime, requestedPage, cellIn, cellOut,
                 labelIn, labelOut>>

\* changePage(tableId, direction), the function the Prev and Next buttons of
\* the pagination controls call; it is called here with every direction
\* while the controls are in the document.
changePage(direction) ==
  /\ tableData.stored
  /\ tableDom.pagination
  /\ LET totalPages == TotalPages(tableData.data)
         page == Clamp(tableData.currentPage + direction, totalPages)
         startIdx == (page - 1) * pageSize
     IN /\ requestedPage' = tableData.currentPage + direction
        /\ tableData' = [tableData EXCEPT !.currentPage = page]
        /\ tableDom' = [tableDom EXCEPT
                          !.body = Slice(tableData.data, startIdx, startIdx + pageSize),
                          !.page = page,
                          !.prevDisabled = (page = 1),
                          !.nextDisabled = (page = totalPages)]
  /\ UNCHANGED <<callVars, plotVars, responseTime, cellIn, cellOut, labelIn, labelOut>>

Directions == (-MaxJump)..MaxJump

NextPage ==
  \/ \E n \in 1..MaxRows : renderDataTable(n)
  \/ expandTable
  \/ \E direction \in Directions : changePage(direction)

\* ------------------------------------------------------------ table cells
\* A cell value: null, undefined, a number or a string.  A number is held in
\* hundredths (h = 4550 is 45.5); a string carries whether it matches
\* /^-?\d+\.?\d*$/ and, if so, its parseFloat in hundredths.
Null == [h |-> 0, kind |-> "null", text |-> ""]
Undef == [h |-> 0, kind |-> "undefined", text |-> ""]
Number(h) == [h |-> h, kind |-> "number", text |-> ""]
NumericString(text, h) == [h |-> h, kind |-> "numeric string", text |-> text]
String(text) == [h |-> 0, kind |-> "string", text |-> text]

\* The html of a cell.  Crore(123) is "\u20b91.23 Cr", Lakh(250) "\u20b92.50 L",
\* Rupee(h) the rupee sign and the en-IN grouping, Percent(4500) "45.00%",
\* Grouped(h) the en-IN grouping with at most two decimals, IdText(n) the
\* bare integer, Text(s) the escaped string.
Crore(h) == [style |-> "Cr", h |-> h, text |-> ""]
Lakh(h) == [style |-> "L", h |-> h, text |-> ""]
Rupee(h) == [style |-> "rupee", h |-> h, text |-> ""]
Percent(h) == [style |-> "%", h |-> h, text |-> ""]
Grouped(h) == [style |-> "grouped", h |-> h, text |-> ""]
IdText(n) == [style |-> "integer", h |-> n * 100, text |-> ""]
Text(s) == [style |-> "text", h |-> 0, text |-> s]
NullSpan == [style |-> "placeholder", h |-> 0, text |-> "<span class=null-value>-</span>"]
Dash == [style |-> "placeholder", h |-> 0, text |-> "-"]

\* Math.abs
Abs(x) == IF x < 0 THEN 0 - x ELSE x

\* (h / 100 / unit).toFixed(2) in hundredths: the magnitude is rounded, the
\* sign put back.
ToFixed2(h, unit) ==
  IF h < 0 THEN 0 - ((Abs(h) + (unit \div 2)) \div unit)
  ELSE (h + (unit \div 2)) \div unit

\* Math.round(h / 100): halves go up.
Round(h) ==
  IF h < 0 THEN 0 - ((Abs(h) + 49) \div 100) ELSE (h + 50) \div 100

\* formatCellValue(value) of the query module.
formatCellValue(value) ==
  IF value.kind \in {"null", "undefined"} THEN NullSpan
  ELSE IF value.kind \in {"number", "numeric string"}
  THEN LET num == value.h
       IN IF Abs(num) >= 1000000000 THEN Crore(ToFixed2(num, 10000000))
          ELSE IF Abs(num) >= 10000000 THEN Lakh(ToFixed2(num, 100000))
          ELSE IF Abs(num) % 100 = 0 THEN Grouped(num)
          ELSE IF Abs(num) <= 10000 THEN Percent(num)
          ELSE Grouped(num)
  ELSE Text(value.text)

\* lower.includes(kw) for some kw of kws
IncludesSome(lower, kws) == \E kw \in kws : FirstMatch(lower, kw) # 0

\* getColumnType(colName) of the utility module, on lower-case names.
getColumnType(colName) ==
  IF IncludesSome(colName, {<<"r", "a", "n", "k">>, <<"p", "o", "s", "i", "t", "i", "o", "n">>, <<"r", "o", "w">>, <<"i", "n", "d", "e", "x">>}) THEN "id"
  ELSE IF IncludesSome(colName, {<<"v", "a", "l", "u", "e">>, <<"a", "m", "o", "u", "n", "t">>, <<"s", "a", "l", "e", "s">>, <<"r", "e", "v", "e", "n", "u", "e">>, <<"p", "r", "o", "f", "i", "t">>, <<"c", "o", "s", "t">>, <<"p", "r", "i", "c", "e">>, <<"t", "o", "t", "a", "l">>, <<"i", "n", "r">>})
  THEN (IF IncludesSome(colName, {<<"r", "a", "n", "k">>, <<"p", "e", "r", "c", "e", "n", "t">>, <<"p", "c", "t">>, <<"%">>})
        THEN "default" ELSE "currency")
  ELSE IF IncludesSome(colName, {<<"i", "d">>, <<"c", "o", "d", "e">>, <<"n", "u", "m", "b", "e", "r">>, <<"n", "o">>, <<"i", "n", "v", "o", "i", "c", "e">>}) THEN "id"
  ELSE IF IncludesSome(colName, {<<"p", "e", "r", "c", "e", "n", "t">>, <<"p", "c", "t">>, <<"r", "a", "t", "e">>, <<"r", "a", "t", "i", "o">>, <<"p", "e", "r", "c", "e", "n", "t", "a", "g", "e">>}) THEN "percent"
  ELSE IF IncludesSome(colName, {<<"c", "o", "u", "n", "t">>, <<"q", "t", "y">>, <<"q", "u", "a", "n", "t", "i", "t", "y">>}) THEN "count"
  ELSE "default"

\* formatCellValue(value, colName = '') of the utility module.
formatCellValueOfColumn(value, colName) ==
  IF value.kind \in {"null", "undefined"} THEN Dash
  ELSE IF value.kind = "number"
  THEN LET colType == getColumnType(colName)
       IN CASE colType = "currency" ->
                 (IF Abs(value.h) >= 1000000000
                  THEN Crore(ToFixed2(value.h, 10000000))
                  ELSE IF Abs(value.h) >= 10000000
                  THEN Lakh(ToFixed2(value.h, 100000))
                  ELSE Rupee(value.h))
            [] colType = "id" -> IdText(Round(value.h))
            [] colType = "percent" -> Percent(value.h)
            [] colType = "count" -> Grouped(Round(value.h) * 100)
            [] OTHER -> Grouped(value.h)
  ELSE Text(value.text)

total_sales == <<"t", "o", "t", "a", "l", "_", "s", "a", "l", "e", "s">>
discount_pct == <<"d", "i", "s", "c", "o", "u", "n", "t", "_", "p", "c", "t">>
order_count == <<"o", "r", "d", "e", "r", "_", "c", "o", "u", "n", "t">>
rank == <<"r", "a", "n", "k">>
invoice_amount == <<"i", "n", "v", "o", "i", "c", "e", "_", "a", "m", "o", "u", "n", "t">>
rank_sales == <<"r", "a", "n", "k", "_", "s", "a", "l", "e", "s">>
sales_pct == <<"s", "a", "l", "e", "s", "_", "p", "c", "t">>
ColumnNames ==
  {total_sales, discount_pct, order_count, rank, invoice_amount, rank_sales,
   sales_pct, <<"x">>}

CellValues ==
  {Null, Undef, String("abc"), NumericString("45.50", 4550)}
    \cup {Number(h) : h \in {0, 4500, 4550, 123400, 123450, 9999999, 10000000,
                              25000000, 999999999, 1000000000, 1234567800,
                              -4550, -123400, -25000000, -1234567800}}

\* Both modules declare a global formatCellValue; the one whose script is
\* loaded last is the one buildTableRows calls.
CellFormatters == {"query", "utility"}

\* html += `<td>${formatCellValue(row[col])}</td>` of buildTableRows, for one
\* cell: the column name is not passed on.
buildTableRows(loaded, value, col) ==
  /\ cellIn' = [path |-> "table", value |-> value, col |-> col]
  /\ cellOut' = IF loaded = "query" THEN formatCellValue(value)
                ELSE formatCellValueOfColumn(value, <<>>)
  /\ UNCHANGED <<callVars, plotVars, responseTime, tableVars, labelIn, labelOut>>

\* formatCellValue(value, col) of the result card's renderDataTable.
renderResultCell(value, col) ==
  /\ cellIn' = [path |-> "result card", value |-> value, col |-> col]
  /\ cellOut' = formatCellValueOfColumn(value, col)
  /\ UNCHANGED <<callVars, plotVars, responseTime, tableVars, labelIn, labelOut>>

NextFormat ==
  \/ \E loaded \in CellFormatters, value \in CellValues, col \in ColumnNames :
        buildTableRows(loaded, value, col)
  \/ \E value \in CellValues, col \in ColumnNames : renderResultCell(value, col)

\* ------------------------------------------------------------ chart labels
\* A label is a sequence of characters in which a month name and the
\* ellipsis "..." are one element each.
Digits == <<"0", "1", "2", "3", "4", "5", "6", "7", "8", "9">>

IsDigit(c) == \E i \in 1..10 : Digits[i] = c

DigitValue(c) == (CHOOSE i \in 1..10 : Digits[i] = c) - 1

\* parseInt(str, 10) of a string of digits
RECURSIVE ParseInt(_)
ParseInt(str) ==
  IF str = <<>> THEN 0
  ELSE 10 * ParseInt(SubSeq(str, 1, Len(str) - 1)) + DigitValue(str[Len(str)])

AllDigits(str) == \A i \in 1..Len(str) : IsDigit(str[i])

ShortMonthNames == <<"Jan", "Feb", "Mar", "Apr", "May", "Jun",
                     "Jul", "Aug", "Sep", "Oct", "Nov", "Dec">>

FullMonthNames == <<"January", "February", "March", "April", "May", "June",
                    "July", "August", "September", "October", "November",
                    "December">>

MonthNameOffByOne(monthNames, n) ==
  IF n + 1 \in 1..12 THEN monthNames[n + 1] ELSE Undefined

\* monthNames[n - 1] of a JavaScript array: undefined outside its indices.
MonthName(monthNames, n) == IF n \in 1..12 THEN monthNames[n] ELSE Undefined

\* str.match(/^(\d{4})-(\d{2})-(\d{2})/)
IsoDateMatch(str) ==
  /\ Len(str) >= 10
  /\ AllDigits(SubSeq(str, 1, 4)) /\ str[5] = "-"
  /\ AllDigits(SubSeq(str, 6, 7)) /\ str[8] = "-"
  /\ AllDigits(SubSeq(str, 9, 10))

\* /^(1|2|3|4|5|6|7|8|9|10|11|12)$/.test(str)
MonthNumberMatch(str) ==
  /\ Len(str) \in 1..2
  /\ AllDigits(str)
  /\ str[1] # "0"
  /\ ParseInt(str) \in 1..12

\* str.match(/^(\d{4})-(\d{2})$/)
YearMonthMatch(str) ==
  /\ Len(str) = 7
  /\ AllDigits(SubSeq(str, 1, 4)) /\ str[5] = "-"
  /\ AllDigits(SubSeq(str, 6, 7))

\* truncateLabel(value, maxLen) on String(value); null and undefined are
\* the empty label.
truncateLabel(str, maxLen) ==
  IF IsoDateMatch(str)
  THEN LET year == SubSeq(str, 1, 4)
           month == SubSeq(str, 6, 7)
           day == SubSeq(str, 9, 10)
           monthName == MonthName(ShortMonthNames, ParseInt(month))
       IN IF day = <<"0", "1">> THEN <<monthName, " ">> \o year
          ELSE day \o <<" ", monthName>>
  ELSE IF MonthNumberMatch(str)
  THEN <<MonthName(FullMonthNames, ParseInt(str))>>
  ELSE IF YearMonthMatch(str)
  THEN <<MonthName(ShortMonthNames, ParseInt(SubSeq(str, 6, 7))), " ">>
         \o SubSeq(str, 1, 4)
  ELSE IF Len(str) > maxLen THEN SubSeq(str, 1, maxLen) \o <<"...">> ELSE str

DefaultMaxLen == 15
BarLabelMaxLen == 10

\* n as two digits, n as it is written
Pad2(n) == <<Digits[(n \div 10) + 1], Digits[(n % 10) + 1]>>
Written(n) == IF n < 10 THEN <<Digits[n + 1]>> ELSE Pad2(n)

Year2024 == <<"2", "0", "2", "4">>

\* The values of a label column: day and month buckets with every month
\* field from 00 to 13, timestamps, month numbers, and plain text around the
\* two maximum lengths.
LabelValues ==
  {Year2024 \o <<"-">> \o Pad2(m) \o <<"-">> \o Pad2(d) \o suffix :
     m \in 0..13, d \in {1, 5, 15}, suffix \in {<<>>, <<"T", "0", "0">>}}
    \cup {Year2024 \o <<"-">> \o Pad2(m) : m \in 0..13}
    \cup {Written(n) : n \in 0..13}
    \cup {Pad2(n) : n \in 1..9}
    \cup {[i \in 1..n |-> "x"] : n \in {0, 1, 9, 10, 11, 15, 16}}
    \cup {<<"2", "0", "2", "4", "-", "4", "-", "1">>}

\* One truncateLabel call of renderBarChart or renderLineChart.
LabelCall(value, maxLen) ==
  /\ labelIn' = [value |-> value, maxLen |-> maxLen]
  /\ labelOut' = truncateLabel(value, maxLen)
  /\ UNCHANGED <<callVars, plotVars, responseTime, tableVars, cellIn, cellOut>>

NextLabel ==
  \E value \in LabelValues, maxLen \in {DefaultMaxLen, BarLabelMaxLen} :
    LabelCall(value, maxLen)

\* --------------------------------------------------------- chart series
\* A result is its number of columns and its rows; a row is the sequence of
\* its cells in column order, so row[columns[j]] is the row's (j+1)-th cell.
\* A cell of a result is <<kind, hundredths, characters>>.
BarCap == 20
LineCap == 50

NullCell == <<"null", 0, <<>>>>
UndefinedCell == <<"undefined", 0, <<>>>>
NumberCell(h) == <<"number", h, <<>>>>
Chars(text) == <<"string", 0, text>>
Kind(value) == value[1]
Hundredths(value) == value[2]
Characters(value) == value[3]

\* n as it is written, for n >= 0
RECURSIVE Decimal(_)
Decimal(n) ==
  IF n < 10 THEN <<Digits[n + 1]>>
  ELSE Decimal(n \div 10) \o <<Digits[(n % 10) + 1]>>

\* String(value), for null, undefined, text and whole numbers from 0 up.
StringOf(value) ==
  CASE Kind(value) = "null" -> <<"n", "u", "l", "l">>
    [] Kind(value) = "undefined" -> <<Undefined>>
    [] Kind(value) = "number" -> Decimal(Hundredths(value) \div 100)
    [] OTHER -> Characters(value)

\* The digits of str from position i on.
LeadingDigits(str, i) ==
  CHOOSE n \in 0..Len(str) :
    /\ \A j \in i..(i + n - 1) : j <= Len(str) /\ IsDigit(str[j])
    /\ i + n > Len(str) \/ ~IsDigit(str[i + n])

\* parseFloat(str) in hundredths, for text without leading blanks, without
\* an exponent and with at most two decimals: the longest prefix that is
\* a number, <<TRUE, 0>> for NaN when there is none,
\* <<FALSE, h>> otherwise.
parseFloat(str) ==
  LET signed == Len(str) > 0 /\ str[1] \in {"-", "+"}
      s == IF signed THEN Tail(str) ELSE str
      ni == LeadingDigits(s, 1)
      nf == IF Len(s) > ni /\ s[ni + 1] = "." THEN LeadingDigits(s, ni + 2) ELSE 0
      decimals == SubSeq(s, ni + 2, ni + 1 + Min(nf, 2))
      h == 100 * ParseInt(SubSeq(s, 1, ni))
             + (IF Len(decimals) = 1 THEN 10 ELSE 1) * ParseInt(decimals)
  IN IF ni = 0 /\ nf = 0 THEN <<TRUE, 0>>
     ELSE <<FALSE, IF signed /\ str[1] = "-" THEN 0 - h ELSE h>>

parseNumeric(value) ==
  IF Kind(value) = "number" THEN Hundredths(value)
  ELSE LET num == parseFloat(StringOf(value))
       IN IF num[1] THEN 0 ELSE num[2]

\* truncateLabel(value, maxLen) from its first line on.
truncateLabelOf(value, maxLen) ==
  IF Kind(value) \in {"null", "undefined"} THEN <<>>
  ELSE truncateLabel(StringOf(value), maxLen)

\* data.slice(0, n), and a slice that keeps every row
TakeAll(data, n) == data
Take(data, n) == SubSeq(data, 1, Min(n, Len(data)))

\* row[columns[j - 1]]: undefined when the result has no such column
Column(row, j) == IF j \in 1..Len(row) THEN row[j] ELSE UndefinedCell

\* parts.join(sep)
RECURSIVE Join(_, _)
Join(parts, sep) ==
  IF parts = <<>> THEN <<>>
  ELSE IF Len(parts) = 1 THEN parts[1]
  ELSE parts[1] \o sep \o Join(Tail(parts), sep)

\* The value column taken to be the second one.
SecondColumn(columns) == 2

\* let valueColIndex = columns.length - 1, counted from 1
valueColIndex(columns) == columns

renderBarChart(columns, data) ==
  LET valueCol == valueColIndex(columns)
      labelCols == valueCol - 1
      rows == Take(data, BarCap)
  IN [labels |-> [i \in 1..Len(rows) |->
                   IF labelCols > 1
                   THEN Join([j \in 1..labelCols |->
                                truncateLabelOf(Column(rows[i], j), BarLabelMaxLen)],
                             <<" - ">>)
                   ELSE truncateLabelOf(Column(rows[i], 1), DefaultMaxLen)],
      values |-> [i \in 1..Len(rows) |-> parseNumeric(Column(rows[i], valueCol))]]

renderLineChart(columns, data) ==
  LET rows == Take(data, LineCap)
  IN [labels |-> [i \in 1..Len(rows) |->
                   truncateLabelOf(Column(rows[i], 1), DefaultMaxLen)],
      values |-> [i \in 1..Len(rows) |-> parseNumeric(Column(rows[i], 2))]]

\* value || '' keeps every value but null, undefined, 0 and ''
Falsy(value) ==
  \/ Kind(value) \in {"null", "undefined"}
  \/ Kind(value) = "number" /\ Hundredths(value) = 0
  \/ Kind(value) = "string" /\ Characters(value) = <<>>

renderPieChart(columns, data) ==
  [labels |-> [i \in 1..Len(data) |->
                IF Falsy(Column(data[i], 1)) THEN <<>>
                ELSE StringOf(Column(data[i], 1))],
   values |-> [i \in 1..Len(data) |-> parseNumeric(Column(data[i], 2))]]

\* switch (vizType) of renderVisualization
Plot(vizType, columns, data) ==
  CASE vizType = "bar" -> renderBarChart(columns, data)
    [] vizType = "line" -> renderLineChart(columns, data)
    [] vizType = "pie" -> renderPieChart(columns, data)

\* The cells of row i: date buckets, long text, whole numbers (the first
\* twelve are month numbers), short text and null in the label columns;
\* numbers, numeric text, text that starts with a number, other text and
\* null in the value column.  No two rows are alike.
LabelCell(i, j) ==
  CASE i % 7 = 0 -> NullCell
    [] (i + j) % 4 = 0 ->
         Chars(Year2024 \o <<"-">> \o Pad2(1 + (i \div 28)) \o <<"-">>
                 \o Pad2(1 + (i % 28)))
    [] (i + j) % 4 = 1 ->
         Chars(<<"r", "o", "w", " ">> \o Decimal(i) \o [c \in 1..12 |-> "x"])
    [] (i + j) % 4 = 2 -> NumberCell(100 * i)
    [] OTHER -> Chars(<<"r">> \o Decimal(i))

ValueCell(i) ==
  CASE i % 5 = 0 -> Chars(<<"a", "b", "c">>)
    [] i % 5 = 1 -> NumberCell(100 * i + 50)
    [] i % 5 = 2 -> Chars(Decimal(i) \o <<".", "5">>)
    [] i % 5 = 3 -> NullCell
    [] OTHER -> Chars(<<"-">> \o Decimal(i) \o <<"k", "g">>)

Rows(n, columns, shift) ==
  [i \in 1..n |->
     [j \in 1..columns |->
        IF j = columns THEN ValueCell(i + shift) ELSE LabelCell(i + shift, j)]]

\* The Metadata event hands over the result: metadata = data, with its
\* columns and rows.
receiveResult(columns, data) ==
  /\ plotIn' = [vizType |-> "", columns |-> columns, data |-> data]
  /\ UNCHANGED <<callVars, responseTime, tableVars, cellIn, cellOut, labelIn,
                 labelOut, plotOut>>

\* The array after data.splice(n): the rows after the n-th are removed.
AfterSplice(data, n) == Take(data, n)

\* The array after data.slice(0, n): slice copies, the array keeps its rows.
AfterSlice(data, n) == data

\* The rows after the chart function has run on them: a slice in
\* renderBarChart and renderLineChart, then map; map alone in renderPieChart.
DataAfter(vizType, data) ==
  CASE vizType = "bar" -> AfterSlice(data, BarCap)
    [] vizType = "line" -> AfterSlice(data, LineCap)
    [] vizType = "pie" -> data

\* renderBarChart, renderLineChart or renderPieChart as renderVisualization
\* calls it on the rows of the result.
renderChart(vizType) ==
  /\ shouldRenderChart(vizType, Len(plotIn.data))
  /\ plotIn' = [plotIn EXCEPT !.vizType = vizType,
                              !.data = DataAfter(vizType, plotIn.data)]
  /\ plotOut' = Plot(vizType, plotIn.columns, plotIn.data)
  /\ UNCHANGED <<callVars, responseTime, tableVars, cellIn, cellOut, labelIn,
                 labelOut>>

\* One result and one chart of it.
NextPlot ==
  \/ \E columns \in 1..3, n \in 0..MaxPlotRows, shift \in 0..1 :
       /\ plotIn.data = <<>>
       /\ receiveResult(columns, Rows(n, columns, shift))
  \/ \E vizType \in {"bar", "line", "pie"} :
       /\ plotIn.vizType = ""
       /\ renderChart(vizType)

\* One result, its table and its charts, in any order and any number of
\* times.
NextRows ==
  \/ \E columns \in 2..3, n \in 1..MaxPlotRows :
       /\ plotIn.data = <<>>
       /\ receiveResult(columns, Rows(n, columns, 0))
  \/ plotIn.data # <<>> /\ renderDataTable(Len(plotIn.data))
  \/ expandTable
  \/ \E direction \in {-1, 1} : changePage(direction)
  \/ \E vizType \in {"bar", "line", "pie"} : renderChart(vizType)

\* ----------------------------------------------------------------- Init
Init ==
  /\ pc = [s \in Sessions |-> "idle"]
  /\ stream = [s \in Sessions |-> <<>>]
  /\ pos = [s \in Sessions |-> 0]
  /\ pend = [s \in Sessions |-> <<>>]
  /\ buffer = [s \in Sessions |-> <<>>]
  /\ streamedAnswer = [s \in Sessions |-> <<>>]
  /\ metadataReceived = [s \in Sessions |-> FALSE]
  /\ bubbleP = [s \in Sessions |-> 0]
  /\ state = [s \in Sessions |-> "Idle"]
  /\ events = [s \in Sessions |-> <<>>]
  /\ trail = [s \in Sessions |-> <<"Idle">>]
  /\ parseFailures = [s \in Sessions |-> <<>>]
  /\ responseTime = ""
  /\ tableData = NoTableData
  /\ tableDom = NoTable
  /\ requestedPage = 0
  /\ cellIn = [path |-> "", value |-> Null, col |-> <<>>]
  /\ cellOut = Text("")
  /\ labelIn = [value |-> <<>>, maxLen |-> 0]
  /\ labelOut = <<>>
  /\ detached = {}
  /\ chartInstances = {}
  /\ charts = <<>>
  /\ plotIn = [vizType |-> "", columns |-> 0, data |-> <<>>]
  /\ plotOut = [labels |-> <<>>, values |-> <<>>]
  /\ switching = {}
  /\ datasetSelect = 0
  /\ currentCustomPrompt = 0
  /\ toasts = <<>>
  /\ questionInput = <<>>
  /\ currentChatId = 0
  /\ loadingShown = FALSE
  /\ askBtnDisabled = FALSE
  /\ messages = <<>>
  /\ refreshes = 0
  /\ requests = 0
  /\ upPc = "idle"
  /\ upStream = <<>>
  /\ upPos = 0
  /\ upPend = <<>>
  /\ upBuffer = <<>>
  /\ upEvents = <<>>
  /\ uploadPercent = 0
  /\ uploadStatus = ""

\* -------------------------------------------------------------- actions
\* Calls are numbered in the order they are made.
NextCall(s) == pc[s] = "idle" /\ \A r \in Sessions : r < s => pc[r] # "idle"

\* askQuestion() up to the await of fetch, with a dataset selected and a
\* non-empty question.
Submit(s) ==
  /\ NextCall(s)
  /\ messages' = Append(messages, createMessageElement("user", s, <<"question">>))
  /\ loadingShown' = TRUE
  /\ askBtnDisabled' = TRUE
  /\ requests' = requests + 1
  /\ questionInput' = <<>>
  /\ pc' = [pc EXCEPT ![s] = "fetch"]
  /\ state' = [state EXCEPT ![s] = "AwaitingMetadata"]
  /\ trail' = [trail EXCEPT ![s] = Append(@, "AwaitingMetadata")]
  /\ UNCHANGED <<stream, pos, pend, buffer, streamedAnswer, metadataReceived,
                 bubbleP, events, parseFailures, currentChatId, refreshes,
                 uploadVars, viewVars>>

\* The ask button's onclick: a disabled button fires no click.
AskButton(s) == ~askBtnDisabled /\ Submit(s)

\* useSuggestion(text): sets the input and calls askQuestion().
useSuggestion(s) == Submit(s)

\* Writes the loop's record back to the variables.
Commit(s, st, next) ==
  /\ streamedAnswer' = [streamedAnswer EXCEPT ![s] = st.streamedAnswer]
  /\ metadataReceived' = [metadataReceived EXCEPT ![s] = st.metadataReceived]
  /\ bubbleP' = [bubbleP EXCEPT ![s] = st.bubbleP]
  /\ state' = [state EXCEPT ![s] = st.state]
  /\ events' = [events EXCEPT ![s] = st.events]
  /\ trail' = [trail EXCEPT ![s] = st.trail]
  /\ parseFailures' = [parseFailures EXCEPT ![s] = st.parseFailures]
  /\ currentChatId' = st.currentChatId
  /\ loadingShown' = st.loadingShown
  /\ askBtnDisabled' = st.askBtnDisabled
  /\ messages' = st.messages
  /\ refreshes' = st.refreshes
  /\ pc' = [pc EXCEPT ![s] = next]

\* fetch resolves with a 2xx response whose body is strm.
FetchResponds(s, strm) ==
  /\ pc[s] = "fetch"
  /\ pc' = [pc EXCEPT ![s] = "read"]
  /\ stream' = [stream EXCEPT ![s] = strm]
  /\ UNCHANGED <<pos, pend, buffer, streamedAnswer, metadataReceived, bubbleP,
                 state, events, trail, parseFailures, currentChatId, loadingShown,
                 askBtnDisabled, messages, refreshes, requests, uploadVars,
                 viewVars, questionInput>>

\* fetch rejects, or resolves with a non-2xx status (throw new Error).
FetchFails(s) ==
  /\ pc[s] = "fetch"
  /\ LET st == CatchBlock(Locals(s))
     IN Commit(s, st, IF st.returned THEN "returned" ELSE "threw")
  /\ UNCHANGED <<stream, pos, pend, buffer, requests, uploadVars, viewVars, questionInput>>

\* reader.read() resolves with the next n bytes: decode, split, loop.
ReadBytes(s, n) ==
  /\ pc[s] = "read"
  /\ n \in 1..(Len(stream[s]) - pos[s])
  /\ \E d \in {Decode(pend[s] \o SubSeq(stream[s], pos[s] + 1, pos[s] + n))} :
       \E lines \in {Split(buffer[s] \o d.text, <<NL>>)} :
         \E st \in {ProcessLines(Locals(s), Complete(lines), s)} :
           /\ pos' = [pos EXCEPT ![s] = pos[s] + n]
           /\ pend' = [pend EXCEPT ![s] = d.pend]
           /\ buffer' = [buffer EXCEPT ![s] = Pop(lines)]
           /\ Commit(s, st, IF st.returned THEN "returned" ELSE "read")
  /\ UNCHANGED <<stream, requests, uploadVars, viewVars, questionInput>>

\* The chunk sizes of Spec: up to any later multiple of ChunkUnit, or all
\* that is left.
UnitSizes(s) ==
  {n \in 1..(Len(stream[s]) - pos[s]) :
     (pos[s] + n) % ChunkUnit = 0 \/ pos[s] + n = Len(stream[s])}

ReadChunk(s) == \E n \in UnitSizes(s) : ReadBytes(s, n)

\* A reader that would hand what is left in the carry-over to the loop
\* when the body ends.
ReadDoneFlushes(s) ==
  /\ pc[s] = "read"
  /\ pos[s] = Len(stream[s])
  /\ \E st \in {ProcessLines(Locals(s), <<buffer[s]>>, s)} :
       Commit(s, [st EXCEPT !.askBtnDisabled = FALSE], "returned")
  /\ UNCHANGED <<stream, pos, pend, buffer, requests, uploadVars, viewVars, questionInput>>

\* reader.read() resolves with done: break, then askBtn.disabled = false.
ReadDone(s) ==
  /\ pc[s] = "read"
  /\ pos[s] = Len(stream[s])
  /\ pc' = [pc EXCEPT ![s] = "returned"]
  /\ askBtnDisabled' = FALSE
  /\ UNCHANGED <<stream, pos, pend, buffer, streamedAnswer, metadataReceived,
                 bubbleP, state, events, trail, parseFailures, currentChatId,
                 loadingShown, messages, refreshes, requests, uploadVars,
                 viewVars, questionInput>>

\* reader.read() rejects (the connection drops).
ReadFails(s) ==
  /\ pc[s] = "read"
  /\ LET st == CatchBlock(Locals(s))
     IN Commit(s, st, IF st.returned THEN "returned" ELSE "threw")
  /\ UNCHANGED <<stream, pos, pend, buffer, requests, uploadVars, viewVars, questionInput>>

Next ==
  \E s \in Sessions :
    \/ AskButton(s)
    \/ useSuggestion(s)
    \/ \E strm \in AnswerStreams : FetchResponds(s, strm)
    \/ FetchFails(s)
    \/ ReadChunk(s)
    \/ ReadDone(s)
    \/ ReadFails(s)

Spec == Init /\ [][Next]_vars

\* ------------------------------------------------------------ uploadFile
\* One event of the upload stream: the prefix, the payload, a blank line.
UploadFrame(payload) == Prefix \o payload \o <<NL, NL>>

RECURSIVE UploadWire(_)
UploadWire(payloads) ==
  IF payloads = <<>> THEN <<>>
  ELSE UploadFrame(Head(payloads)) \o UploadWire(Tail(payloads))

\* updateProgressUI(eventData, ...)
updateProgressUI(ui, eventData) ==
  IF eventData.error # ""
  THEN [percent |-> eventData.progress, status |-> "error"]
  ELSE IF eventData.progress = 100
  THEN [percent |-> eventData.progress, status |-> "success"]
  ELSE [percent |-> eventData.progress, status |-> "progress"]

\* for (const line of lines) of uploadFile, on [ui, events].
RECURSIVE UploadLines(_, _)
UploadLines(u, lines) ==
  IF lines = <<>> THEN u
  ELSE LET line == Head(lines)
           data == ParseJSON(Drop(line, Len(Prefix)))
       IN UploadLines(
            IF StartsWith(line, Prefix) /\ data.ok
            THEN [ui |-> updateProgressUI(u.ui, data),
                  events |-> Append(u.events, data.members)]
            ELSE u,
            Tail(lines))

\* uploadFile(file) up to the await of uploadFileAPI.
uploadFile ==
  /\ upPc = "idle"
  /\ upPc' = "fetch"
  /\ uploadPercent' = 0
  /\ uploadStatus' = "starting"
  /\ UNCHANGED <<upStream, upPos, upPend, upBuffer, upEvents, sessionVars,
                 currentChatId, loadingShown, askBtnDisabled, messages,
                 refreshes, requests, viewVars, questionInput>>

\* uploadFileAPI resolves with a 2xx response whose body is strm.
UploadResponds(strm) ==
  /\ upPc = "fetch"
  /\ upPc' = "read"
  /\ upStream' = strm
  /\ UNCHANGED <<upPos, upPend, upBuffer, upEvents, uploadPercent, uploadStatus,
                 sessionVars, currentChatId, loadingShown, askBtnDisabled,
                 messages, refreshes, requests, viewVars, questionInput>>

\* reader.read() of uploadFile resolves with the next n bytes.
UploadReadBytes(n) ==
  /\ upPc = "read"
  /\ n \in 1..(Len(upStream) - upPos)
  /\ LET chunk == SubSeq(upStream, upPos + 1, upPos + n)
         d == Decode(upPend \o chunk)
         lines == Split(upBuffer \o d.text, <<NL, NL>>)
         u == UploadLines([ui |-> [percent |-> uploadPercent, status |-> uploadStatus],
                           events |-> upEvents],
                          Complete(lines))
     IN /\ upPos' = upPos + n
        /\ upPend' = d.pend
        /\ upBuffer' = Pop(lines)
        /\ upEvents' = u.events
        /\ uploadPercent' = u.ui.percent
        /\ uploadStatus' = u.ui.status
  /\ UNCHANGED <<upPc, upStream, sessionVars, currentChatId, loadingShown,
                 askBtnDisabled, messages, refreshes, requests, viewVars, questionInput>>

\* reader.read() of uploadFile resolves with done.
UploadReadDone ==
  /\ upPc = "read"
  /\ upPos = Len(upStream)
  /\ upPc' = "returned"
  /\ UNCHANGED <<upStream, upPos, upPend, upBuffer, upEvents, uploadPercent,
                 uploadStatus, sessionVars, currentChatId, loadingShown,
                 askBtnDisabled, messages, refreshes, requests, viewVars, questionInput>>

\* uploadFileAPI or reader.read() rejects: the catch of uploadFile.
UploadFails ==
  /\ upPc \in {"fetch", "read"}
  /\ upPc' = "returned"
  /\ uploadStatus' = "error"
  /\ UNCHANGED <<upStream, upPos, upPend, upBuffer, upEvents, uploadPercent,
                 sessionVars, currentChatId, loadingShown, askBtnDisabled,
                 messages, refreshes, requests, viewVars, questionInput>>

\* ------------------------------------------------- generated event streams
RECURSIVE SeqsUpTo(_, _)
SeqsUpTo(S, n) ==
  IF n = 0 THEN {<<>>}
  ELSE LET shorter == SeqsUpTo(S, n - 1)
       IN shorter \cup {Append(q, x) : q \in shorter, x \in S}

EventSeqs(S) == SeqsUpTo(S, MaxEvents) \ {<<>>}

QuestionPayloads == {Meta7, TokA, TokE, TokN, DoneEv, ErrEv}

UploadPayloads == {<<"{", "p", "}">>, <<"{", "p", Lead, Cont, "}">>,
                   <<"{", "r", "}">>, <<"{", "p", "Q", "}">>}

\* A service that ends every event with a blank line is valid for the
\* question stream too: the empty line between events carries no prefix.
QuestionStreams ==
  {Wire(q) : q \in EventSeqs(QuestionPayloads)}
    \cup {UploadWire(q) : q \in EventSeqs({TokE, DoneEv})}

UploadStreams == {UploadWire(q) : q \in EventSeqs(UploadPayloads)}

\* The two readers share no state: SpecChunk explores each alone, one call
\* of either, under every way of cutting the response into chunks.
NextChunk ==
  \/ upPc = "idle" /\ AskButton(1)
  \/ \E strm \in QuestionStreams : FetchResponds(1, strm)
  \/ \E n \in 1..(Len(stream[1]) - pos[1]) : ReadBytes(1, n)
  \/ ReadDone(1)
  \/ pc[1] = "idle" /\ uploadFile
  \/ \E strm \in UploadStreams : UploadResponds(strm)
  \/ \E n \in 1..(Len(upStream) - upPos) : UploadReadBytes(n)
  \/ UploadReadDone
  \/ UploadFails

SpecChunk == Init /\ [][NextChunk]_vars

\* Table cells, formatted one at a time.
SpecFormat == Init /\ [][NextFormat]_vars

\* Chart labels, formatted one at a time.
SpecLabel == Init /\ [][NextLabel]_vars

\* Chart series, computed one chart at a time.
SpecPlot == Init /\ [][NextPlot]_vars
SpecRows == Init /\ [][NextRows]_vars

\* One table: rendered, expanded, paged.
SpecPage == Init /\ [][NextPage]_vars

\* --------------------------------------------------------- chart registry
\* A chart container's id is the index of its message element.  The
\* container is in the document while its element is attached and its
\* placeholder holds the container (empty, drawn, or overwritten by the
\* single-value display).
HasContainer(i) ==
  /\ i \in 1..Len(messages) /\ i \notin detached
  /\ messages[i].bubble = "answer"
  /\ messages[i].viz.shown \in {"container", "chart", "single"}

\* Map.get (0 for undefined), Map.delete and Map.set on the pairs.
MapGet(m, k) ==
  IF \E p \in m : p[1] = k THEN (CHOOSE p \in m : p[1] = k)[2] ELSE 0

MapDelete(m, k) == {p \in m : p[1] # k}

MapSet(m, k, v) == MapDelete(m, k) \cup {<<k, v>>}

Registry == [chartInstances |-> chartInstances, charts |-> charts]

\* A destroyChart that leaves the registry as it is.
NoDestroy(reg, containerId) == reg

destroyChart(reg, containerId) ==
  LET chart == MapGet(reg.chartInstances, containerId)
  IN IF chart # 0
     THEN [chartInstances |-> MapDelete(reg.chartInstances, containerId),
           charts |-> [reg.charts EXCEPT ![chart].destroyed = TRUE]]
     ELSE reg

\* new Chart(ctx, ...) of renderBarChart, renderLineChart, renderPieChart.
Chart(containerId) == [container |-> containerId, destroyed |-> FALSE]

\* renderVisualization(containerId, vizType, columns, data): the container
\* looked up in the document, the registry and the container's content.
renderVisualizationAt(containerId, vizType, columns, data) ==
  IF ~HasContainer(containerId)
  THEN UNCHANGED <<messages, chartInstances, charts>>
  ELSE \E reg \in {destroyChart(Registry, containerId)} :
         /\ messages' = [messages EXCEPT ![containerId].viz =
                           renderVisualization(@, vizType, columns, data)]
         /\ IF vizType # "single_value" /\ shouldRenderChart(vizType, data)
            THEN /\ charts' = Append(reg.charts, Chart(containerId))
                 /\ chartInstances' = MapSet(reg.chartInstances, containerId,
                                             Len(reg.charts) + 1)
            ELSE /\ charts' = reg.charts
                 /\ chartInstances' = reg.chartInstances

\* ------------------------------------------------ one call with its charts
\* setTimeout(() => renderVisualization(vizId, ...), 50) of the metadata
\* branch and of createMessageElement fires for the container of message i.
ChartTimer(i) ==
  /\ messages[i].bubble = "answer"
  /\ messages[i].viz.shown = "container"
  /\ renderVisualizationAt(i, messages[i].viz.vizType, messages[i].viz.columns,
                           messages[i].viz.data)
  /\ UNCHANGED <<sessionVars, currentChatId, loadingShown, askBtnDisabled,
                 refreshes, requests, uploadVars, plotVars, chatVars, questionInput,
                 responseTime,
                 tableVars, cellIn, cellOut, labelIn, labelOut, detached>>

MetaViz(v, r, c) == <<"{", "M">> \o v \o <<r, c, "}">>

\* Metadata with every hint (or none) and result shape, then a token and
\* the end of the answer.
VizStreams ==
  {Wire(<<MetaViz(v, r, c), TokA, DoneEv>>) :
     v \in {<<m>> : m \in VizMembers} \cup {<<>>},
     r \in RowMembers, c \in ColMembers}

\* A line of the question stream that carries a payload.
Line(payload) == Prefix \o payload

RECURSIVE JoinLines(_)
JoinLines(lines) ==
  IF lines = <<>> THEN <<>> ELSE Head(lines) \o <<NL>> \o JoinLines(Tail(lines))

ErrMeta == <<"{", "M", "7", "Q", "}">>
ErrTok == <<"{", "T", "A", "Q", "}">>
ErrDone == <<"{", "D", "e", "Q", "}">>
Unknown == <<"{", "X", "A", "}">>

\* A payload cut in two by a newline: a line that ends inside the object,
\* and the rest, a line without the prefix.
Broken == Line(<<"{", "T">>)
Rest == <<"A", "}">>

Segments ==
  {Line(Meta7), Line(TokA), Line(DoneEv), Line(ErrMeta), Line(ErrTok),
   Line(Unknown), Broken, Rest}

\* Every sequence of up to MaxEvents lines, and two longer bodies.
LineStreams ==
  {JoinLines(q) : q \in EventSeqs(Segments)}
    \cup {JoinLines(<<Line(Meta7), Rest, Broken, Line(Unknown), Line(TokA),
                      Line(ErrDone)>>),
          JoinLines(<<Broken, Rest, Line(Unknown), Line(Meta7), Line(TokA),
                      Line(DoneEv)>>)}

\* Bodies the server closed before the newline of the last line: inside an
\* object, or after a whole token, done or error payload.
TruncatedStreams ==
  {Wire(<<Meta7, TokA>>) \o Line(last) :
     last \in {<<"{", "T">>, TokB, DoneEv, ErrEv}}
    \cup {Line(ErrEv), Line(Meta7), Wire(<<ErrEv>>) \o Line(TokB)}

AnswerCallStreams == VizStreams \cup LineStreams \cup TruncatedStreams

NextAnswer ==
  \/ AskButton(1)
  \/ \E strm \in AnswerCallStreams : FetchResponds(1, strm)
  \/ FetchFails(1)
  \/ \E n \in 1..(Len(stream[1]) - pos[1]) : ReadBytes(1, n)
  \/ ReadDone(1)
  \/ ReadFails(1)
  \/ \E i \in 1..Len(messages) : ChartTimer(i)

SpecAnswer == Init /\ [][NextAnswer]_vars

\* ------------------------------------------- charts over the chat's life
\* A stored message as GET /chats/{id}/messages returns it; a message
\* without metadata has no rows.
Stored(role, content, vizType, columns, data) ==
  [role |-> role, content |-> content,
   metadata |-> [viz_type |-> vizType, columns |-> columns, data |-> data]]

\* createMessageElement(role, content, metadata): with rows in the
\* metadata, a placeholder that a 10 ms timer will fill; else a standard
\* message.
createMessageElementOf(msg) ==
  IF msg.role = "assistant" /\ msg.metadata.data > 0
  THEN [AnswerBubble(0, Placeholder("pending", msg.metadata.viz_type,
                                    msg.metadata.columns, msg.metadata.data, 0))
          EXCEPT !.html = formatAnswer(msg.content)]
  ELSE createMessageElement(msg.role, 0,
         IF msg.role = "assistant" THEN formatAnswer(msg.content) ELSE msg.content)

\* The 10 ms timer of createMessageElement: a chart container, or a table
\* for every other hint.
PlaceholderTimer(i) ==
  /\ messages[i].bubble = "answer"
  /\ messages[i].viz.shown = "pending"
  /\ messages' = [messages EXCEPT ![i].viz.shown =
                    IF shouldRenderChart(messages[i].viz.vizType, messages[i].viz.data)
                    THEN "container" ELSE "table"]
  /\ UNCHANGED <<sessionVars, currentChatId, loadingShown, askBtnDisabled,
                 refreshes, requests, uploadVars, plotVars, chatVars, questionInput,
                 responseTime,
                 tableVars, cellIn, cellOut, labelIn, labelOut, chartVars>>

\* renderMessages(messages): container.innerHTML = '', then one element per
\* stored message.
renderMessages(msgs) ==
  /\ Len(messages) + Len(msgs) <= MaxMessages
  /\ detached' = 1..Len(messages)
  /\ messages' = messages \o [k \in 1..Len(msgs) |-> createMessageElementOf(msgs[k])]
  /\ UNCHANGED <<sessionVars, currentChatId, loadingShown, askBtnDisabled,
                 refreshes, requests, uploadVars, plotVars, chatVars, questionInput,
                 responseTime,
                 tableVars, cellIn, cellOut, labelIn, labelOut, chartInstances, charts>>

\* startNewChat(): currentChatId = null and #messagesContainer emptied.
startNewChat ==
  /\ currentChatId' = 0
  /\ currentCustomPrompt' = 0
  /\ detached' = 1..Len(messages)
  /\ questionInput' = <<>>
  /\ UNCHANGED <<sessionVars, loadingShown, askBtnDisabled, messages,
                 refreshes, requests, uploadVars, plotVars, switching,
                 datasetSelect, toasts, responseTime, tableVars,
                 cellIn, cellOut, labelIn, labelOut, chartInstances, charts>>

\* A call of renderVisualization on the container of message i.
renderVisualizationCall(i, vizType, columns, data) ==
  /\ Len(charts) < MaxCharts
  /\ renderVisualizationAt(i, vizType, columns, data)
  /\ UNCHANGED <<sessionVars, currentChatId, loadingShown, askBtnDisabled,
                 refreshes, requests, uploadVars, plotVars, chatVars, questionInput,
                 responseTime,
                 tableVars, cellIn, cellOut, labelIn, labelOut, detached>>

Histories ==
  {<<Stored("user", <<"question">>, Undefined, 0, 0),
     Stored("assistant", <<"A">>, "bar", 2, 2)>>,
   <<Stored("assistant", <<"B">>, "pie", 2, 3),
     Stored("assistant", <<"A">>, "table", 2, 2)>>}

ChartStreams == {Wire(<<MetaViz(<<"line">>, "rows2", "cols2"), TokA, DoneEv>>)}

NextChart ==
  \/ AskButton(1)
  \/ \E strm \in ChartStreams : FetchResponds(1, strm)
  \/ ReadBytes(1, Len(stream[1]))
  \/ ReadDone(1)
  \/ \E msgs \in Histories : renderMessages(msgs)
  \/ startNewChat
  \/ \E i \in 1..Len(messages) :
       \/ PlaceholderTimer(i)
       \/ ChartTimer(i)
       \/ \E vizType \in {"bar", "single_value", "table"} :
            renderVisualizationCall(i, vizType, 2, 3)

SpecChart == Init /\ [][NextChart]_vars

\* ------------------------------------------- an answer and its replay
\* The index of the first metadata payload a call's loop has handled, 0 if
\* none.
MetadataAt(s) ==
  IF \E i \in 1..Len(events[s]) :
       ParseJSON(<<"{">> \o events[s][i] \o <<"}">>).type = "metadata"
  THEN CHOOSE i \in 1..Len(events[s]) :
         ParseJSON(<<"{">> \o events[s][i] \o <<"}">>).type = "metadata"
  ELSE 0

\* The chat's history as switchToChat loads it after the call: the answer
\* stored with the metadata the call received.
HistoryOf(s) ==
  LET data == ParseJSON(<<"{">> \o events[s][MetadataAt(s)] \o <<"}">>)
  IN <<Stored("assistant", <<"A">>, data.viz_type, data.columns, data.data)>>

NextReplay ==
  \/ AskButton(1)
  \/ \E strm \in VizStreams : FetchResponds(1, strm)
  \/ ReadBytes(1, Len(stream[1]))
  \/ ReadDone(1)
  \/ MetadataAt(1) # 0 /\ renderMessages(HistoryOf(1))
  \/ \E i \in 1..Len(messages) :
       \/ PlaceholderTimer(i)
       \/ ChartTimer(i)

SpecReplay == Init /\ [][NextReplay]_vars

\* ------------------------------------------------ questions and resets
\* deleteChat(chatId, event) once its DELETE request has resolved:
\* startNewChat() if the chat is the current one, then loadChatHistory().
deleteChat(chatId) ==
  /\ refreshes < MaxRefreshes
  /\ refreshes' = refreshes + 1
  /\ IF chatId = currentChatId
     THEN /\ currentChatId' = 0
          /\ currentCustomPrompt' = 0
          /\ detached' = 1..Len(messages)
          /\ questionInput' = <<>>
     ELSE UNCHANGED <<currentChatId, currentCustomPrompt, detached, questionInput>>
  /\ UNCHANGED <<sessionVars, loadingShown, askBtnDisabled, messages,
                 requests, uploadVars, plotVars, switching, datasetSelect,
                 toasts, responseTime, tableVars,
                 cellIn, cellOut, labelIn, labelOut, chartInstances, charts>>

ResetStreams == {Wire(<<Meta7, TokA, DoneEv>>), Wire(<<Meta8, TokB, DoneEv>>)}

NextReset ==
  \/ \E s \in Sessions :
       \/ AskButton(s)
       \/ \E strm \in ResetStreams : FetchResponds(s, strm)
       \/ ReadChunk(s)
       \/ ReadDone(s)
  \/ startNewChat
  \/ \E chatId \in {7, 8} : deleteChat(chatId)

SpecReset == Init /\ [][NextReset]_vars

\* ----------------------------------------------------- switching chats
\* What GET /chats/{id}/messages returns for the two stored chats: the
\* chat's messages, its dataset_id and its system_prompt (chat 8 has none).
ChatIds == {7, 8}

ChatResponse(chatId) ==
  [messages |-> <<Stored("assistant", IF chatId = 7 THEN <<"A">> ELSE <<"B">>,
                         Undefined, 0, 0)>>,
   chat |-> [dataset_id |-> chatId - 6,
             system_prompt |-> IF chatId = 7 THEN 1 ELSE 0]]

\* switchToChat(chatId) up to its await: the chat id is set and the
\* messages are requested.
switchToChat(chatId) ==
  /\ chatId \notin switching
  /\ currentChatId' = chatId
  /\ switching' = switching \cup {chatId}
  /\ UNCHANGED <<sessionVars, loadingShown, askBtnDisabled, messages,
                 refreshes, requests, uploadVars, plotVars, datasetSelect,
                 currentCustomPrompt, toasts, questionInput, responseTime,
                 tableVars, cellIn, cellOut, labelIn, labelOut, chartVars>>

\* The dataset a response selects: the select keeps its value when the chat
\* has no dataset_id.
SelectedBy(data, selected) ==
  IF data.chat.dataset_id # 0 THEN data.chat.dataset_id ELSE selected

\* switchToChat(chatId) from its await on, the response having arrived:
\* renderMessages(data.messages), the dataset selector, the custom prompt.
switchResponds(chatId) ==
  /\ chatId \in switching
  /\ switching' = switching \ {chatId}
  /\ \E data \in {ChatResponse(chatId)} :
       /\ Len(messages) + Len(data.messages) <= MaxMessages
       /\ detached' = 1..Len(messages)
       /\ messages' = messages \o [k \in 1..Len(data.messages) |->
                                     createMessageElementOf(data.messages[k])]
       /\ datasetSelect' = SelectedBy(data, datasetSelect)
       /\ currentCustomPrompt' = data.chat.system_prompt
  /\ UNCHANGED <<sessionVars, currentChatId, loadingShown, askBtnDisabled,
                 refreshes, requests, uploadVars, plotVars, toasts,
                 questionInput, responseTime, tableVars, cellIn, cellOut,
                 labelIn, labelOut, chartInstances, charts>>

NextSwitch ==
  \E chatId \in ChatIds :
    \/ switchToChat(chatId)
    \/ switchResponds(chatId)

SpecSwitch == Init /\ [][NextSwitch]_vars

\* ------------------------------------------------ askQuestion's validation
DatasetToast == "Please select a dataset first"
QuestionToast == "Please enter a question"

Whitespace == {" ", NL}

\* A question taken as it was typed.
NoTrim(text) == text

\* input.value.trim()
Trim(text) ==
  LET inked == {i \in 1..Len(text) : text[i] \notin Whitespace}
  IN IF inked = {} THEN <<>>
     ELSE SubSeq(text, CHOOSE i \in inked : \A j \in inked : i <= j,
                       CHOOSE i \in inked : \A j \in inked : i >= j)

\* What the validation, the typing, the select and the toast timer leave
\* alone.
formFrame ==
  <<sessionVars, currentChatId, loadingShown, askBtnDisabled, messages,
    refreshes, requests, uploadVars, responseTime, tableVars, cellIn, cellOut,
    labelIn, labelOut, chartVars, plotVars, switching, currentCustomPrompt>>

\* showToast(message, 'error') and return.
Reject(message) ==
  /\ Len(toasts) < MaxToasts
  /\ toasts' = Append(toasts, message)
  /\ UNCHANGED <<formFrame, datasetSelect, questionInput>>

\* askQuestion() from its first line: the dataset check, the question
\* check, then the submit.
askQuestion(s) ==
  /\ NextCall(s)
  /\ IF datasetSelect = 0 THEN Reject(DatasetToast)
     ELSE IF Trim(questionInput) = <<>> THEN Reject(QuestionToast)
     ELSE Submit(s)

\* setTimeout(() => toast.remove(), 4000) of the oldest toast.
toastTimeout ==
  /\ toasts # <<>>
  /\ toasts' = Tail(toasts)
  /\ UNCHANGED <<formFrame, datasetSelect, questionInput>>

\* The user types into #questionInput; the user picks in #datasetSelect.
typeQuestion(text) ==
  /\ questionInput' = text
  /\ UNCHANGED <<formFrame, datasetSelect, toasts>>

selectDataset(value) ==
  /\ datasetSelect' = value
  /\ UNCHANGED <<formFrame, questionInput, toasts>>

QuestionTexts ==
  {<<>>, <<" ">>, <<" ", NL, " ">>, <<"question">>, <<" ", "question", NL>>}

NextAsk ==
  \/ \E text \in QuestionTexts : typeQuestion(text)
  \/ \E value \in 0..1 : selectDataset(value)
  \/ toastTimeout
  \/ \E s \in Sessions :
       \/ askQuestion(s)
       \/ \E strm \in ResetStreams : FetchResponds(s, strm)
       \/ ReadBytes(s, Len(stream[s]))
       \/ ReadDone(s)

SpecAsk == Init /\ [][NextAsk]_vars

\* ------------------------------------------------- reading of the claims
\* The loop's record before anything has been read.
FreshLocals ==
  [streamedAnswer |-> <<>>, metadataReceived |-> FALSE, bubbleP |-> 0,
   state |-> "AwaitingMetadata", events |-> <<>>, trail |-> <<>>,
   parseFailures |-> <<>>,
   currentChatId |-> 0, loadingShown |-> TRUE, askBtnDisabled |-> TRUE,
   messages |-> <<>>, refreshes |-> 0, returned |-> FALSE]

\* What askQuestion's reader yields when bytes arrive as one chunk.
WholeQuestion(bytes) ==
  LET d == Decode(bytes)
      lines == Split(d.text, <<NL>>)
  IN [events |-> ProcessLines(FreshLocals, Complete(lines), 1).events,
      buffer |-> Pop(lines)]

\* What uploadFile's reader yields when bytes arrive as one chunk.
WholeUpload(bytes) ==
  LET d == Decode(bytes)
      lines == Split(d.text, <<NL, NL>>)
  IN [events |-> UploadLines([ui |-> [percent |-> 0, status |-> "starting"],
                              events |-> <<>>], Complete(lines)).events,
      buffer |-> Pop(lines)]

Delivered(s) == SubSeq(stream[s], 1, pos[s])

\* The event a logged payload is.
EventOf(ms) == ParseJSON(<<"{">> \o ms \o <<"}">>)

IsToken(ms) == EventOf(ms).error = "" /\ EventOf(ms).type = "token"
IsMetadata(ms) == EventOf(ms).error = "" /\ EventOf(ms).type = "metadata"
IsError(ms) == EventOf(ms).error # ""

\* The index of the first Metadata event of a log, past its end if none.
FirstMetadata(evs) ==
  IF \E i \in 1..Len(evs) : IsMetadata(evs[i])
  THEN CHOOSE i \in 1..Len(evs) :
         IsMetadata(evs[i]) /\ \A j \in 1..(i - 1) : ~IsMetadata(evs[j])
  ELSE Len(evs) + 1

\* The contents of the Token events after the first Metadata, in order.
TokensSinceMetadata(evs) ==
  LET later == SubSeq(evs, FirstMetadata(evs) + 1, Len(evs))
      toks == SelectSeq(later, IsToken)
  IN [i \in 1..Len(toks) |-> EventOf(toks[i]).content]

TokensBeforeMetadata(evs) ==
  SelectSeq(SubSeq(evs, 1, FirstMetadata(evs) - 1), IsToken)

\* The paragraph the call renders its answer into.
SinkHtml(s) == IF bubbleP[s] = 0 THEN <<>> ELSE messages[bubbleP[s]].html

OwnAssistant(s) ==
  {i \in 1..Len(messages) : messages[i].owner = s /\ messages[i].role = "assistant"}

\* The call took a step.
Moves(s) == pc'[s] # pc[s] \/ pos'[s] # pos[s]

InFlight(s) == pc[s] \in {"fetch", "read"}

\* C1: however the response is cut into chunks, the events handed on so far
\* and the carry-over are those of feeding the delivered bytes as one chunk,
\* for the newline-delimited question stream and the blank-line-delimited
\* upload stream.
C1_ChunkingInvariant ==
  /\ pc[1] \in {"read", "returned"} =>
       /\ events[1] = WholeQuestion(Delivered(1)).events
       /\ buffer[1] = WholeQuestion(Delivered(1)).buffer
  /\ upPc \in {"read", "returned"} =>
       /\ upEvents = WholeUpload(SubSeq(upStream, 1, upPos)).events
       /\ upBuffer = WholeUpload(SubSeq(upStream, 1, upPos)).buffer

\* C1 witness: an event has been delivered and the last cut fell inside a
\* two-byte character of the next payload.
C1_Witness ==
  /\ pc[1] = "read"
  /\ events[1] # <<>>
  /\ pend[1] = <<Lead>>
  /\ StartsWith(buffer[1], Prefix)

\* C2: once a call is Done or Failed, a later read of its stream changes
\* neither its answer, its text sink, its state nor the refresh count.
C2_TerminalIsNoOp ==
  [][\A s \in Sessions :
       (state[s] \in {"Done", "Failed"} /\ Moves(s)) =>
          /\ streamedAnswer'[s] = streamedAnswer[s]
          /\ state'[s] = state[s]
          /\ bubbleP'[s] = bubbleP[s]
          /\ bubbleP[s] # 0 => messages'[bubbleP[s]].html = messages[bubbleP[s]].html
          /\ refreshes' = refreshes]_vars

\* C3: the step that fails a call re-enables the ask button and sends no
\* request.
C3_FailureReenablesSubmit ==
  [][\A s \in Sessions :
       (state[s] # "Failed" /\ state'[s] = "Failed") =>
          ~askBtnDisabled' /\ requests' = requests]_vars

\* C4: a transport-level failure (a step that fails the call without an
\* event having been read) renders the generic failure message for the call.
C4_TransportFailureRendersGeneric ==
  [][\A s \in Sessions :
       (state[s] # "Failed" /\ state'[s] = "Failed" /\ events'[s] = events[s]) =>
          \E i \in 1..Len(messages') :
             /\ messages'[i].owner = s
             /\ messages'[i].html = ErrorSpan(GenericFailure)]_vars

\* C5: once a later question has been submitted, no step of an earlier call
\* changes the message list, the chat id, the ask button or the loading
\* indicator.
C5_SupersededIsSilent ==
  [][\A s, t \in Sessions :
       (s < t /\ pc[t] # "idle" /\ Moves(s)) =>
          UNCHANGED <<messages, currentChatId, askBtnDisabled, loadingShown>>]_vars

\* C6: a step of one call leaves every other call's accumulated answer and
\* text sink as they were.
C6_AnswerIsOwned ==
  [][\A s \in Sessions :
       ~Moves(s) =>
          /\ streamedAnswer'[s] = streamedAnswer[s]
          /\ bubbleP'[s] = bubbleP[s]
          /\ bubbleP[s] # 0 => messages'[bubbleP[s]].html = messages[bubbleP[s]].html]_vars

\* C6 witness: two calls overlap, both have streamed text, one is Done while
\* the other still shows its cursor.
C6_Witness ==
  /\ InFlight(1) /\ InFlight(2)
  /\ state[1] = "Streaming" /\ state[2] = "Done"
  /\ streamedAnswer[1] # <<>> /\ streamedAnswer[2] # <<>>
  /\ SinkHtml(1) = formatAnswer(streamedAnswer[1]) \o <<Cursor>>
  /\ SinkHtml(2) = formatAnswer(streamedAnswer[2])

\* C7: the accumulated answer is the concatenation, in arrival order, of the
\* contents of the Token events after the Metadata event, whatever the
\* chunking, and what a Token or Done event rendered is that text.
C7_AnswerIsConcatenation ==
  \A s \in Sessions :
    /\ streamedAnswer[s] = TokensSinceMetadata(WholeQuestion(Delivered(s)).events)
    /\ SinkHtml(s) \in {<<>>, ErrorSpan(GenericFailure),
                        formatAnswer(streamedAnswer[s]),
                        formatAnswer(streamedAnswer[s]) \o <<Cursor>>}

\* C7 witness: two tokens have been accumulated and are displayed, a line
\* break among them.
C7_Witness ==
  \E s \in Sessions :
    /\ Len(streamedAnswer[s]) = 2
    /\ NL \in {streamedAnswer[s][i] : i \in 1..2}
    /\ SinkHtml(s) = formatAnswer(streamedAnswer[s]) \o <<Cursor>>

\* C8: a Token read before the call's Metadata is neither accumulated nor
\* rendered, then or later: the answer holds one entry per Token read after
\* the Metadata, and before the Metadata the call has no answer and no
\* answer bubble.
C8_TokenBeforeMetadataRejected ==
  \A s \in Sessions :
    /\ Len(streamedAnswer[s]) + Len(TokensBeforeMetadata(events[s]))
         = Len(SelectSeq(events[s], IsToken))
    /\ ~metadataReceived[s] =>
         /\ streamedAnswer[s] = <<>>
         /\ bubbleP[s] = 0
         /\ \A i \in OwnAssistant(s) : messages[i].bubble = "plain"

\* C8 witness: a Token came before the Metadata and another after it.
C8_Witness ==
  \E s \in Sessions :
    /\ Len(TokensBeforeMetadata(events[s])) = 1
    /\ metadataReceived[s]
    /\ Len(streamedAnswer[s]) = 1

\* C9: a call that read an Error event before any Metadata is Failed and
\* owns exactly one assistant element, the inline error with the message:
\* no answer bubble and no empty message.
C9_ErrorBeforeMetadata ==
  \A s \in Sessions :
    (events[s] # <<>> /\ IsError(events[s][Len(events[s])]) /\ ~metadataReceived[s]) =>
       /\ state[s] = "Failed"
       /\ Cardinality(OwnAssistant(s)) = 1
       /\ \A i \in OwnAssistant(s) :
            /\ messages[i].bubble = "plain"
            /\ messages[i].html = ErrorSpan(EventOf(events[s][Len(events[s])]).error)

\* C9 witness: a call failed by an Error event before any Metadata.
C9_Witness ==
  \E s \in Sessions :
    /\ events[s] # <<>> /\ IsError(events[s][Len(events[s])])
    /\ ~metadataReceived[s]
    /\ pc[s] = "returned"

\* C10: a call's state only moves along Idle -> AwaitingMetadata ->
\* Streaming -> Done and AwaitingMetadata | Streaming -> Failed.
Edges ==
  {<<"Idle", "AwaitingMetadata">>, <<"AwaitingMetadata", "Streaming">>,
   <<"Streaming", "Done">>, <<"AwaitingMetadata", "Failed">>,
   <<"Streaming", "Failed">>}

C10_ListedEdgesOnly ==
  \A s \in Sessions :
    \A i \in 1..(Len(trail[s]) - 1) : <<trail[s][i], trail[s][i + 1]>> \in Edges

\* C11: the step that takes a call from Streaming to Done leaves its text
\* sink showing the whole accumulated answer without the cursor, records the
\* elapsed time in the response-time display, and triggers one chat-list
\* refresh.
C11_DoneFinalizes ==
  [][\A s \in Sessions :
       (state[s] = "Streaming" /\ state'[s] = "Done") =>
          /\ messages'[bubbleP'[s]].html = formatAnswer(streamedAnswer'[s])
          /\ responseTime' # ""
          /\ refreshes' = refreshes + 1]_vars

\* The answer bubbles of the call.
OwnAnswers(s) == {i \in OwnAssistant(s) : messages[i].bubble = "answer"}

\* C12: no answer bubble shows token text while the chart computed from its
\* metadata is still undrawn (the placeholder holds only the empty chart
\* container).
C12_VizBeforeText ==
  \A i \in OwnAnswers(1) :
    messages[i].html # <<>> => messages[i].viz.shown # "container"

\* The Metadata event the call's answer bubble was built from.
MetadataOf(s) == EventOf(events[s][FirstMetadata(events[s])])

\* C13: for the hints bar, line and pie a result of two or more rows gives a
\* chart of that kind (its container, then the chart) and a result of
\* exactly one row gives a table.
C13_ChartOrTable ==
  \A i \in OwnAnswers(1) :
    MetadataOf(1).viz_type \in {"bar", "line", "pie"} =>
      /\ MetadataOf(1).data >= 2 =>
           /\ messages[i].viz.shown \in {"container", "chart"}
           /\ messages[i].viz.vizType = MetadataOf(1).viz_type
      /\ MetadataOf(1).data = 1 => messages[i].viz.shown = "table"

\* C14: for the hint single_value and a non-empty result the bubble shows a
\* single-value display of the first row's last column (the only column
\* when there is one).
C14_SingleValueShown ==
  \A i \in OwnAnswers(1) :
    (MetadataOf(1).viz_type = "single_value" /\ MetadataOf(1).data > 0) =>
      /\ messages[i].viz.shown = "single"
      /\ messages[i].viz.valueColumn = MetadataOf(1).columns

\* C15: the current page of a table lies in 1..ceil(n / pageSize); after a
\* page change it is the requested page clamped to that range (page 10 of 95
\* rows gives page 5, page 0 gives page 1), and the body shows exactly that
\* page's rows, so a change at a boundary shows what was shown before.
C15_PageWithinRange ==
  tableData.stored =>
    LET n == tableData.data
        last == TotalPages(n)
        page == tableData.currentPage
    IN /\ page \in 1..last
       /\ tableData.expanded =>
            /\ tableDom.body = <<(page - 1) * pageSize + 1, Min(page * pageSize, n)>>
            /\ tableDom.pagination => tableDom.page = page
       /\ requestedPage > last => page = last
       /\ (requestedPage < 1 /\ tableDom.pagination) => page = 1
       /\ requestedPage \in 1..last => page = requestedPage

\* C15 witness: page 10 of 95 rows was requested and page 5, rows 81 to 95,
\* is shown.
C15_Witness ==
  /\ tableData.stored /\ tableData.data = 95
  /\ requestedPage = 10
  /\ tableData.currentPage = 5
  /\ tableDom.body = <<81, 95>>

\* C16: on the path that builds table cells, 12345678 in column total_sales
\* gives "\u20b91.23 Cr", 45.0 in column discount_pct gives "45.00%", and null
\* or undefined gives the placeholder whatever the column.
C16_CellExamples ==
  cellIn.path = "table" =>
    /\ (cellIn.value = Number(1234567800) /\ cellIn.col = total_sales) =>
         cellOut = Crore(123)
    /\ (cellIn.value = Number(4500) /\ cellIn.col = discount_pct) =>
         cellOut = Percent(4500)
    /\ cellIn.value \in {Null, Undef} => cellOut.style = "placeholder"

Last(q) == q[Len(q)]

\* The text a step of call 1 splits: the carry-over followed by the text of
\* the bytes read in the step.
StepText ==
  buffer[1] \o Decode(pend[1] \o SubSeq(stream[1], pos[1] + 1, pos'[1])).text

\* The lines of a text that have ended.
NewLines(text) == Complete(Split(text, <<NL>>))

\* What of the loop's record the user can observe, and the call's own part.
Observable(st) ==
  <<st.state, st.streamedAnswer, st.metadataReceived, st.bubbleP, st.messages,
    st.currentChatId, st.loadingShown, st.askBtnDisabled, st.refreshes,
    st.returned>>

Ignored(line) ==
  \/ ~StartsWith(line, Prefix)
  \/ ~WellFormed(Drop(line, Len(Prefix)))
  \/ LET data == ParseJSON(Drop(line, Len(Prefix)))
     IN data.error = "" /\ data.type \notin {"metadata", "token", "done"}

\* C19: a step of the call has the effect of handling only the lines that
\* yield an event: the lines without the prefix, with a malformed payload or
\* with an unrecognized type change nothing and end nothing, and the lines
\* after them are handled as usual.
C19_IgnoredSegments ==
  [][(pc[1] = "read" /\ pos'[1] > pos[1]) =>
       \A text \in {StepText} :
       \A kept \in {SelectSeq(NewLines(text), LAMBDA line : ~Ignored(line))} :
         \A st \in {ProcessLines(Locals(1), kept, 1)} :
           /\ <<state'[1], streamedAnswer'[1], metadataReceived'[1], bubbleP'[1],
                messages', currentChatId', loadingShown', askBtnDisabled',
                refreshes', pc'[1] = "returned">> = Observable(st)
           /\ (kept = <<>>) =>
                /\ pc'[1] = "read"
                /\ UNCHANGED <<state, streamedAnswer, messages>>]_vars

\* C19 witness: a line without the prefix, a malformed payload and an
\* unrecognized type have gone by between the metadata and a token, and the
\* token is displayed.
C19_Witness ==
  /\ stream[1] = JoinLines(<<Line(Meta7), Rest, Broken, Line(Unknown), Line(TokA),
                             Line(ErrDone)>>)
  /\ parseFailures[1] = <<Broken>>
  /\ events[1] = <<<<"M", "7">>, <<"X", "A">>, <<"T", "A">>>>
  /\ state[1] = "Streaming"
  /\ SinkHtml(1) = <<"A", Cursor>>

\* The loop's record when nothing has been read, after the submit.
SubmittedLocals ==
  [FreshLocals EXCEPT !.messages = <<createMessageElement("user", 1, <<"question">>)>>]

\* What askQuestion's reader makes of bytes that arrive as one chunk.
WholeAnswer(bytes) ==
  LET d == Decode(bytes)
      lines == Split(d.text, <<NL>>)
  IN [st |-> ProcessLines(SubmittedLocals, Complete(lines), 1), buffer |-> Pop(lines)]

\* The catch of askQuestion has run for the call.
TransportFailed(s) == pc[s] = "threw" \/ SinkHtml(s) = ErrorSpan(GenericFailure)

\* C20 as stated: the bytes of a line whose parse failed stay in the
\* carry-over buffer for the next feed.
C20_FailedBytesStay ==
  [][parseFailures'[1] # parseFailures[1] =>
       StartsWith(buffer'[1], Last(parseFailures'[1]))]_vars

\* C20: a payload whose line has not ended is not parsed; it waits in the
\* carry-over and is parsed once, when its newline has arrived.  So the parse
\* failures, the events, the answer and the carry-over are those of the
\* delivered bytes read as one chunk, whatever the cuts, and the carry-over
\* never holds a line that has ended, failed or not.
C20_PartialPayloadWaits ==
  (pc[1] \in {"read", "returned"} /\ ~TransportFailed(1)) =>
    \A whole \in {WholeAnswer(Delivered(1))} :
       /\ parseFailures[1] = whole.st.parseFailures
       /\ events[1] = whole.st.events
       /\ buffer[1] = whole.buffer
       /\ state[1] = whole.st.state
       /\ streamedAnswer[1] = whole.st.streamedAnswer
       /\ [i \in 1..Len(messages) |-> messages[i].html]
            = [i \in 1..Len(whole.st.messages) |-> whole.st.messages[i].html]
       /\ \A i \in 1..Len(buffer[1]) : buffer[1][i] # NL

\* C20 witness: an event has been handled and the first bytes of the next
\* payload, not yet an object, wait in the carry-over; no parse has failed.
C20_Witness ==
  /\ pc[1] = "read"
  /\ events[1] # <<>>
  /\ Len(buffer[1]) > Len(Prefix)
  /\ StartsWith(buffer[1], Prefix)
  /\ ~WellFormed(Drop(buffer[1], Len(Prefix)))
  /\ parseFailures[1] = <<>>

\* C21: when the body has ended while the carry-over holds a segment and no
\* read has failed, the segment was dropped: the events, parse failures,
\* answer and messages are those of the lines that ended, no error is
\* rendered and the call is not Failed unless a line that ended carried an
\* error, the segment is still in the carry-over and the ask button is
\* enabled.
C21_FinalSegmentDropped ==
  (/\ pc[1] = "returned" /\ pos[1] = Len(stream[1])
   /\ buffer[1] # <<>> /\ ~TransportFailed(1)) =>
    \A whole \in {WholeAnswer(stream[1])} :
       /\ events[1] = whole.st.events
       /\ parseFailures[1] = whole.st.parseFailures
       /\ streamedAnswer[1] = whole.st.streamedAnswer
       /\ state[1] = whole.st.state
       /\ [i \in 1..Len(messages) |-> messages[i].html]
            = [i \in 1..Len(whole.st.messages) |-> whole.st.messages[i].html]
       /\ (\A i \in 1..Len(events[1]) : ~IsError(events[1][i])) =>
            /\ state[1] # "Failed"
            /\ \A i \in 1..Len(messages) :
                 Len(messages[i].html) = 0 \/ messages[i].html[1] # ErrorSpan("")[1]
       /\ StartsWith(Drop(stream[1], Len(stream[1]) - Len(buffer[1])), buffer[1])
       /\ ~askBtnDisabled

\* C21 witness: the body ended after a whole token payload that had no
\* newline; the call has returned, still Streaming, showing only the first
\* token, with the ask button enabled.
C21_Witness ==
  /\ stream[1] = Wire(<<Meta7, TokA>>) \o Line(TokB)
  /\ pc[1] = "returned"
  /\ buffer[1] = Line(TokB)
  /\ state[1] = "Streaming"
  /\ events[1] = <<<<"M", "7">>, <<"T", "A">>>>
  /\ SinkHtml(1) = <<"A", Cursor>>
  /\ ~askBtnDisabled

\* The charts that were created and not destroyed.
Live == {c \in 1..Len(charts) : ~charts[c].destroyed}

\* C22: the registry holds at most one chart per container id, and the
\* charts it holds are exactly the live ones, each under its own container:
\* a chart that lost its place in the registry was destroyed first.
C22_DisposeBeforeRegister ==
  /\ \A p \in chartInstances, q \in chartInstances : p[1] = q[1] => p = q
  /\ {p[2] : p \in chartInstances} = Live
  /\ \A p \in chartInstances : charts[p[2]].container = p[1]

\* C22 witness: a second chart was drawn in a container that held one; the
\* first is destroyed and the registry holds the second.
C22_Witness ==
  \E c \in 1..Len(charts), d \in 1..Len(charts) :
    /\ c < d /\ charts[c].container = charts[d].container
    /\ charts[c].destroyed /\ ~charts[d].destroyed
    /\ MapGet(chartInstances, charts[d].container) = d

\* C23: the registry holds no chart whose container is no longer in the
\* document.
C23_DisposeOnTeardown ==
  \A p \in chartInstances : HasContainer(p[1])

\* The cell was built with its column name, for a number.
NumberWithColumn ==
  cellIn.path = "result card" /\ cellIn.value.kind = "number"

\* A name with a keyword of the rank, position or id kind.
IdLike(col) ==
  IncludesSome(col, {<<"r", "a", "n", "k">>, <<"p", "o", "s", "i", "t", "i", "o", "n">>,
                     <<"r", "o", "w">>, <<"i", "n", "d", "e", "x">>, <<"i", "d">>,
                     <<"c", "o", "d", "e">>, <<"n", "u", "m", "b", "e", "r">>,
                     <<"n", "o">>, <<"i", "n", "v", "o", "i", "c", "e">>})

\* A name with a keyword of the currency kind.
CurrencyLike(col) ==
  IncludesSome(col, {<<"v", "a", "l", "u", "e">>, <<"a", "m", "o", "u", "n", "t">>,
                     <<"s", "a", "l", "e", "s">>, <<"r", "e", "v", "e", "n", "u", "e">>,
                     <<"p", "r", "o", "f", "i", "t">>, <<"c", "o", "s", "t">>,
                     <<"p", "r", "i", "c", "e">>, <<"t", "o", "t", "a", "l">>})

\* C24: the id kind is looked for before the currency kind: a number in a
\* column whose name has keywords of both kinds is shown as a plain integer,
\* and a currency name without an id keyword is shown as currency even when
\* it also has a percentage keyword.
C24_IdBeforeCurrency ==
  (NumberWithColumn /\ CurrencyLike(cellIn.col)) =>
     IF IdLike(cellIn.col)
     THEN cellOut = IdText(Round(cellIn.value.h))
     ELSE cellOut.style \in {"Cr", "L", "rupee"}

\* C25: a number v in a currency column is shown in crores from
\* 10,000,000 up, in lakhs from 100,000 up to there, and below that,
\* every negative v included, grouped with the rupee sign.
C25_CurrencyForms ==
  (NumberWithColumn /\ getColumnType(cellIn.col) = "currency") =>
     cellOut = IF cellIn.value.h >= 1000000000
               THEN Crore(ToFixed2(cellIn.value.h, 10000000))
               ELSE IF cellIn.value.h >= 10000000
               THEN Lakh(ToFixed2(cellIn.value.h, 100000))
               ELSE Rupee(cellIn.value.h)

\* For zero and positive v the three forms of C25 are as stated, the
\* bounds included.
C25_PositiveForms ==
  (NumberWithColumn /\ getColumnType(cellIn.col) = "currency"
     /\ cellIn.value.h >= 0) => C25_CurrencyForms

\* The rows a chart of the kind plots, of n.
Plotted(vizType, n) ==
  CASE vizType = "bar" -> Min(n, 20)
    [] vizType = "line" -> Min(n, 50)
    [] vizType = "pie" -> n

\* The number a cell parses as, and whether it parses as one.
ParsesAsNumber(value) ==
  Kind(value) = "number" \/ ~parseFloat(StringOf(value))[1]

\* The value column of a chart of the kind, of k columns.
ValueColumn(vizType, k) == IF vizType = "bar" THEN k ELSE 2

\* C26: a bar chart plots the first min(n, 20) rows, a line chart the
\* first min(n, 50), a pie chart all n; labels and values are as many as
\* the rows plotted, entry i of both is what row i alone would give, and a
\* value that does not parse as a number is plotted as 0.
C26_RowsPlotted ==
  plotIn.vizType # "" =>
    LET n == Len(plotIn.data)
        m == Plotted(plotIn.vizType, n)
    IN /\ Len(plotOut.labels) = m
       /\ Len(plotOut.values) = m
       /\ \A i \in 1..m :
            \A alone \in {Plot(plotIn.vizType, plotIn.columns, <<plotIn.data[i]>>)} :
              /\ plotOut.labels[i] = alone.labels[1]
              /\ plotOut.values[i] = alone.values[1]
              /\ ~ParsesAsNumber(Column(plotIn.data[i],
                                        ValueColumn(plotIn.vizType, plotIn.columns)))
                   => plotOut.values[i] = 0

\* C26 witness: a line chart of 52 rows plots 50, among them a text value
\* plotted as 0 and a number plotted as itself.
C26_Witness ==
  /\ plotIn.vizType = "line" /\ plotIn.columns = 2
  /\ Len(plotIn.data) = 52
  /\ Len(plotOut.values) = 50
  /\ plotIn.data[5][2] = Chars(<<"a", "b", "c">>) /\ plotOut.values[5] = 0
  /\ plotIn.data[6][2] = NumberCell(650) /\ plotOut.values[6] = 650

\* C27: for a bar chart over k >= 2 columns the values are those of column
\* k and each label is made of the labels of columns 1..k-1, joined with
\* " - " when they are several; for a line and a pie chart the label is of
\* column 1 and the value of column 2.
C27_LabelAndValueColumns ==
  (plotIn.vizType # "" /\ plotIn.columns >= 2) =>
    \A i \in 1..Len(plotOut.values) :
      LET row == plotIn.data[i]
          k == plotIn.columns
      IN IF plotIn.vizType = "bar"
         THEN /\ plotOut.values[i] = parseNumeric(row[k])
              /\ plotOut.labels[i] =
                   IF k = 2 THEN truncateLabelOf(row[1], DefaultMaxLen)
                   ELSE Join([j \in 1..(k - 1) |->
                                truncateLabelOf(row[j], BarLabelMaxLen)], <<" - ">>)
         ELSE /\ plotOut.values[i] = parseNumeric(row[2])
              /\ plotOut.labels[i] \in {truncateLabelOf(row[1], DefaultMaxLen),
                                        IF Falsy(row[1]) THEN <<>> ELSE StringOf(row[1])}

\* C27 witness: a bar chart over three columns; the label of row 11 joins
\* the labels of its first two cells, a date and a long text, and its value
\* is its third cell's.
C27_Witness ==
  /\ plotIn.vizType = "bar" /\ plotIn.columns = 3 /\ Len(plotIn.data) = 12
  /\ plotIn.data[11] =
       <<Chars(<<"2", "0", "2", "4", "-", "0", "1", "-", "1", "2">>),
         Chars(<<"r", "o", "w", " ", "1", "1">> \o [c \in 1..12 |-> "x"]),
         NumberCell(1150)>>
  /\ plotOut.labels[11] = <<"1", "2", " ", "Jan", " - ", "r", "o", "w", " ", "1",
                            "1", "x", "x", "x", "x", "...">>
  /\ plotOut.values[11] = 1150

\* C28: every label of a chart of any kind is what truncateLabel makes of
\* the cell (date buckets named, long text cut), joined for a bar chart of
\* several label columns.
C28_LabelsFormatted ==
  plotIn.vizType # "" =>
    \A i \in 1..Len(plotOut.labels) :
      plotOut.labels[i] =
        IF plotIn.vizType = "bar" /\ plotIn.columns > 2
        THEN Join([j \in 1..(plotIn.columns - 1) |->
                     truncateLabelOf(plotIn.data[i][j], BarLabelMaxLen)], <<" - ">>)
        ELSE truncateLabelOf(plotIn.data[i][1], DefaultMaxLen)

\* The labels of bar and line charts are formatted as C28 says.
C28_BarAndLineLabels == plotIn.vizType \in {"bar", "line"} => C28_LabelsFormatted

\* The rows page p of n rows shows, as changePage slices them.
PageRows(n, p) == Slice(n, (p - 1) * pageSize, (p - 1) * pageSize + pageSize)

\* C29: an expanded table of n rows has ceil(n / pageSize) pages; the body
\* shows rows (p-1)*pageSize+1 .. min(p*pageSize, n) of the current page p;
\* no page is empty and every row is on exactly one page.
C29_PagesPartitionRows ==
  (tableData.stored /\ tableData.expanded) =>
    LET n == tableData.data
        pages == TotalPages(n)
        p == tableData.currentPage
    IN /\ (pages - 1) * pageSize < n /\ n <= pages * pageSize
       /\ tableDom.body = <<(p - 1) * pageSize + 1, Min(p * pageSize, n)>>
       /\ \A q \in 1..pages :
            /\ PageRows(n, q) = <<(q - 1) * pageSize + 1, Min(q * pageSize, n)>>
            /\ PageRows(n, q)[1] <= PageRows(n, q)[2]
       /\ \A r \in 1..n :
            Cardinality({q \in 1..pages :
                           PageRows(n, q)[1] <= r /\ r <= PageRows(n, q)[2]}) = 1

\* C29 witness: the third and last page of 45 rows shows rows 41 to 45.
C29_Witness ==
  /\ tableData.stored /\ tableData.expanded /\ tableData.data = 45
  /\ tableData.currentPage = 3
  /\ tableDom.page = 3 /\ tableDom.nextDisabled
  /\ tableDom.body = <<41, 45>>

Settled(viz) == viz.shown \notin {"pending", "container"}
VizKind(viz) == <<viz.shown, IF viz.shown = "chart" THEN viz.vizType ELSE "">>

LiveAnswers ==
  {i \in 1..Len(messages) : messages[i].bubble = "answer" /\ messages[i].owner = 1}
ReplayedAnswers ==
  {j \in 1..Len(messages) : messages[j].bubble = "answer" /\ messages[j].owner = 0}

\* C31: the answer rendered while streaming and the same answer rendered
\* from the chat's history, with the same viz_type, columns and rows, show
\* the same kind of visualization: a chart of the same kind, a single value,
\* a table or nothing.
C31_SameVisualization ==
  \A i \in LiveAnswers, j \in ReplayedAnswers :
    (Settled(messages[i].viz) /\ Settled(messages[j].viz)) =>
      VizKind(messages[i].viz) = VizKind(messages[j].viz)

\* Where the hint is a chart kind with at least two rows, table, or absent,
\* the two paths agree.
C31_ChartsAndTablesAgree ==
  \A i \in LiveAnswers, j \in ReplayedAnswers :
    (/\ Settled(messages[i].viz) /\ Settled(messages[j].viz)
     /\ \/ messages[j].viz.vizType \in {"table", Undefined}
        \/ shouldRenderChart(messages[j].viz.vizType, messages[j].viz.data))
      => VizKind(messages[i].viz) = VizKind(messages[j].viz)

\* The call's stream processing has ended: askQuestion returned or threw.
Ended(s) == pc[s] \in {"returned", "threw"}

\* The call's text sink shows the streaming cursor.
ShowsCursor(s) ==
  bubbleP[s] # 0 /\ \E k \in 1..Len(SinkHtml(s)) : SinkHtml(s)[k] = Cursor

\* C32: once the call's stream processing has ended, for whatever reason,
\* the loading indicator is hidden and the call's text sink does not show
\* the streaming cursor.
C32_NoIndicatorAfterEnd == Ended(1) => (~loadingShown /\ ~ShowsCursor(1))

\* After a transport failure neither indicator remains.
C32_TransportFailureClears ==
  (Ended(1) /\ TransportFailed(1)) => (~loadingShown /\ ~ShowsCursor(1))

\* After an ending other than a transport failure the loading indicator is
\* hidden if a Metadata or an Error event was handled.
C32_LoadingHiddenByEvent ==
  (Ended(1) /\ \E i \in 1..Len(events[1]) : IsMetadata(events[1][i]) \/ IsError(events[1][i]))
    => ~loadingShown

\* C33: whatever events the service sends, a call creates at most one
\* answer bubble, and its text sink is that bubble.
C33_OneAnswerBubble ==
  \A s \in Sessions :
    /\ Cardinality(OwnAnswers(s)) <= 1
    /\ bubbleP[s] # 0 => OwnAnswers(s) = {bubbleP[s]}

\* With at most one Metadata event in the stream there is at most one answer
\* bubble, and it is the call's text sink.
C33_OnePerMetadata ==
  \A s \in Sessions :
    Cardinality({i \in 1..Len(events[s]) : IsMetadata(events[s][i])}) <= 1 =>
      /\ Cardinality(OwnAnswers(s)) <= 1
      /\ bubbleP[s] # 0 => OwnAnswers(s) = {bubbleP[s]}

\* The message area was emptied after the call's question was submitted.
ResetSince(s) ==
  \E i \in detached : messages[i].owner = s /\ messages[i].role = "user"

\* C34: after the message area and the chat id were reset, a step of a
\* call whose question was submitted before the reset neither sets the chat
\* id nor adds an answer bubble.
C34_OldQuestionAfterReset ==
  [][\A s \in Sessions :
       (ResetSince(s) /\ Moves(s)) =>
          /\ currentChatId = 0 => currentChatId' = 0
          /\ \A i \in (Len(messages) + 1)..Len(messages') :
               messages'[i].bubble # "answer"]_vars

\* The chat id goes from unset to set only in a step of a call, and only to
\* the chat id of a Metadata event of that call.
C34_IdFromMetadataOnly ==
  [][(currentChatId = 0 /\ currentChatId' # 0) =>
       \E s \in Sessions :
         /\ Moves(s)
         /\ \E i \in 1..Len(events'[s]) :
              IsMetadata(events'[s][i]) /\ EventOf(events'[s][i]).chat_id = currentChatId']_vars

\* The messages in the message area, in order.
Displayed ==
  LET kept == SelectSeq([i \in 1..Len(messages) |-> i], LAMBDA i : i \notin detached)
  IN [k \in 1..Len(kept) |-> messages[kept[k]]]

\* The message area, the dataset selector and the prompt are those of the
\* chat.
ShowsChat(chatId) ==
  /\ Displayed = [k \in 1..Len(ChatResponse(chatId).messages) |->
                    createMessageElementOf(ChatResponse(chatId).messages[k])]
  /\ datasetSelect = ChatResponse(chatId).chat.dataset_id
  /\ currentCustomPrompt = ChatResponse(chatId).chat.system_prompt

\* C35: once every switchToChat has received its messages, the message
\* area, the dataset selection and the custom prompt are those of the chat
\* the current chat id names, whatever the order of the responses.
C35_CurrentChatShown ==
  (switching = {} /\ currentChatId # 0) => ShowsChat(currentChatId)

\* Once every response has arrived, what is shown is one chat's messages,
\* dataset and prompt: those of the chat whose response came last.
C35_OneChatShown ==
  (switching = {} /\ currentChatId # 0) => \E chatId \in ChatIds : ShowsChat(chatId)

\* The question is empty once its blanks are taken off both ends.
Blank(text) == \A i \in 1..Len(text) : text[i] \in Whitespace

\* C36: while no dataset is selected or the question is blank, no step
\* sends a request or starts a call; a step that shows a validation toast
\* happens only then, shows the dataset message if no dataset is selected
\* and the question message otherwise, and changes nothing else: no
\* message, the input text kept, the loading indicator and the ask button
\* as they were.
C36_InvalidAskOnlyToasts ==
  [][/\ (datasetSelect = 0 \/ Blank(questionInput)) =>
          /\ requests' = requests
          /\ \A s \in Sessions : pc[s] = "idle" => pc'[s] = "idle"
     /\ Len(toasts') > Len(toasts) =>
          /\ datasetSelect = 0 \/ Blank(questionInput)
          /\ toasts' = Append(toasts, IF datasetSelect = 0 THEN DatasetToast
                                      ELSE QuestionToast)
          /\ UNCHANGED <<sessionVars, messages, questionInput, datasetSelect,
                         loadingShown, askBtnDisabled, requests, refreshes,
                         currentChatId>>]_vars

\* C36 witness: with a dataset selected and a question of blanks, then with
\* no dataset, askQuestion showed the question toast and the dataset toast;
\* no message, no request, the blanks still in the input.
C36_Witness ==
  /\ toasts = <<QuestionToast, DatasetToast>>
  /\ datasetSelect = 0
  /\ questionInput = <<" ", NL, " ">>
  /\ messages = <<>> /\ requests = 0
  /\ ~loadingShown /\ ~askBtnDisabled
  /\ \A s \in Sessions : pc[s] = "idle"

\* What the table of a received result of n rows shows and stores.
TableOf(n) ==
  IF n <= 10
  THEN /\ ~tableData.stored
       /\ tableDom.body = <<1, n>>
       /\ ~tableDom.viewMore /\ ~tableDom.pagination
  ELSE /\ tableData.stored /\ tableData.data = n
       /\ IF ~tableData.expanded
          THEN /\ tableDom.body = <<1, 10>>
               /\ tableData.currentPage = 1
               /\ tableDom.viewMore /\ ~tableDom.pagination
          ELSE /\ ~tableDom.viewMore
               /\ tableDom.pagination <=> n > 20

\* C37: a table of at most 10 rows shows all of them and stores no
\* pagination state; a table of more shows the first 10 and stores the
\* result with currentPage 1; expandTable sets currentPage to 1 and shows
\* rows 1..min(20, n), with pagination controls exactly when n > 20; a page
\* is changed only in tables of at least 2 pages.  Every step ends in such
\* a state.
C37_TableLifecycle ==
  [][/\ (tableDom # NoTable => TableOf(Len(plotIn.data)))'
     /\ (tableData.stored /\ ~tableData.expanded /\ tableData'.expanded) =>
         /\ tableData'.currentPage = 1
         /\ tableDom'.body = <<1, Min(20, tableData.data)>>
     /\ (tableData.stored /\ tableData.expanded /\ tableData' # tableData) =>
         TotalPages(tableData.data) >= 2]_vars

\* C37 witness: a result of 15 rows, expanded: all 15 rows on one page and
\* no pagination controls.
C37_Witness ==
  /\ Len(plotIn.data) = 15
  /\ tableData.stored /\ tableData.expanded /\ tableData.currentPage = 1
  /\ tableDom.body = <<1, 15>>
  /\ ~tableDom.viewMore /\ ~tableDom.pagination

====
